---- MODULE Spec2Model ----
(***************************************************************************)
(* State-machine model of bot.js (refer & earn Telegram bot): the users,  *)
(* pending, refs and withdrawals collections, and the update handlers and  *)
(* the referral confirmation job that read and write them.                 *)
(*                                                                         *)
(* Every `await` on a store operation of the source is one atomic step of  *)
(* the model (MongoDB applies a single-document operation atomically);     *)
(* between two steps of one handler any other handler may take steps,      *)
(* because Telegraf dispatches the updates of one polling batch            *)
(* concurrently and the timer and the startup run are independent tasks.   *)
(* Replies and notifications change no store; a reply is recorded in       *)
(* lastReply by the step that precedes it.                                 *)
(*                                                                         *)
(* Money is counted in half rupees, so that REFERRAL_REWARD (0.5) is 1.    *)
(* An absent (or $unset) field is modelled by the falsy value the source   *)
(* reads for it: FALSE for a flag, 0 for balanceLocked, <<>> for a string. *)
(***************************************************************************)
EXTENDS Integers, Sequences, FiniteSets, TLC

(***************************************************************************)
(* Configuration (bot.js 16-30)                                            *)
(***************************************************************************)
\* ADMIN_IDS, parsed from the environment
ADMIN_IDS == {2}
\* Number(process.env.CONFIRM_DELAY_HOURS || 48)
CONFIRM_DELAY_HOURS == 48
\* Number(process.env.MIN_WITHDRAWAL || 50) rupees = 100 half rupees
MIN_WITHDRAWAL == 100
\* Number(process.env.REFERRAL_REWARD || 0.5) rupees = 1 half rupee
REFERRAL_REWARD == 1

(***************************************************************************)
(* Bounds of the model                                                     *)
(***************************************************************************)
\* updates (commands, button presses, messages) received in one run
MaxEvents == 3
\* days the clock runs
MaxTime == 3
\* the withdrawal ids administrators name in /pay and /cancelwithdraw
MaxWithdrawalId == 2

\* the Telegram identities that talk to the bot (2 is an administrator)
UserIds == {1, 2}
\* the handlers in flight at the same time: two, the least that can race
Slots == {1, 2}
\* the amounts an administrator credits: 50 rupees, and a debit of 50 rupees
CreditAmounts == {100, -100}

(***************************************************************************)
(* Text messages: sequences of characters                                  *)
(***************************************************************************)
UpperCase == <<"A", "C", "E", "F", "L", "N", "O", "R">>
LowerCase == <<"a", "c", "e", "f", "l", "n", "o", "r">>
Letters == {"a", "b", "c", "e", "f", "h", "i", "k", "l", "m", "n", "o", "r",
            "A", "C", "E", "F", "L", "N", "O", "R"}
Digits == {"0", "1", "2"}
\* \w of a JavaScript regular expression
WordChars == Letters \cup Digits \cup {"_"}

TxtCancel == <<"c", "a", "n", "c", "e", "l">>
TxtCancelUpper == <<"C", "A", "N", "C", "E", "L">>
TxtConfirm == <<"c", "o", "n", "f", "i", "r", "m">>
TxtUpiA == <<"a", "b", "@", "o", "k">>
TxtUpiB == <<"m", ".", "1", "@", "b", "k">>
TxtCancelMixed == <<" ", "C", "a", "n", "c", "e", "l", " ">>
TxtHello == <<" ", "h", "i">>
TxtForce == <<"f", "o", "r", "c", "e">>
TxtForceUpper == <<"F", "O", "R", "C", "E">>
\* the messages users send
Texts == {TxtCancel, TxtCancelUpper, TxtConfirm, TxtUpiA, TxtHello}

\* String.prototype.toLowerCase, character by character
LowerChar(c) ==
  IF \E i \in 1..Len(UpperCase) : UpperCase[i] = c
  THEN LowerCase[CHOOSE i \in 1..Len(UpperCase) : UpperCase[i] = c]
  ELSE c
toLowerCase(t) == [i \in 1..Len(t) |-> LowerChar(t[i])]

\* String.prototype.trim
RECURSIVE trimStart(_)
trimStart(t) ==
  IF t # <<>> /\ Head(t) = " " THEN trimStart(Tail(t)) ELSE t
RECURSIVE trimEnd(_)
trimEnd(t) ==
  IF t # <<>> /\ t[Len(t)] = " " THEN trimEnd(SubSeq(t, 1, Len(t) - 1)) ELSE t
trim(t) == trimEnd(trimStart(t))

\* String.prototype.includes
includes(t, sub) ==
  \E i \in 1..(Len(t) - Len(sub) + 1) : SubSeq(t, i, i + Len(sub) - 1) = sub

\* UPI_REGEX = /^[\w.\-]{2,}@[a-zA-Z]{2,}$/ .test(t)
UPI_REGEX(t) ==
  \E i \in 1..Len(t) :
    /\ t[i] = "@"
    /\ i - 1 >= 2
    /\ Len(t) - i >= 2
    /\ \A j \in 1..(i - 1) : t[j] \in WordChars \cup {".", "-"}
    /\ \A j \in (i + 1)..Len(t) : t[j] \in Letters

\* String.prototype.startsWith
startsWith(t, prefix) ==
  /\ Len(t) >= Len(prefix)
  /\ SubSeq(t, 1, Len(prefix)) = prefix

\* makeReferralCode(): "ref_" and the head of a fresh uuid, which stands for
\* the identity it is made for (the index on referralCode is unique)
TxtRef == <<"r", "e", "f", "_">>
CodeTails == <<"1", "2", "3">>
makeReferralCode(tgId) == TxtRef \o <<CodeTails[tgId]>>

\* a check that lets every identity through
EveryoneAdmin(id) == TRUE

\* isAdmin(id)
isAdmin(id) == id \in ADMIN_IDS

(***************************************************************************)
(* State                                                                   *)
(***************************************************************************)
VARIABLES
  usersCol,        \* telegramId -> user document, or Null
  pendingCol,      \* sequence of pending-referral documents (_id = index)
  refsCol,         \* sequence of confirmed-referral documents
  withdrawalsCol,  \* sequence of withdrawal documents (_id = index)
  requiredChannelsCol, \* sequence of required-channel documents, by createdAt
  now,             \* the clock (Date.now()), in hours
  h,               \* slot -> the handler running in it, or Idle
  events,          \* updates received so far
  lastReply,       \* the last reply sent to the caller of a handler
  hist             \* history: what was credited, refunded and paid, per record

vars == <<usersCol, pendingCol, refsCol, withdrawalsCol, requiredChannelsCol, now, h,
         events, lastReply, hist>>

Null == [null |-> TRUE]
Idle == [pc |-> "idle"]
NoReply == [kind |-> "none", from |-> 0, msg |-> "none"]

\* the document ensureUserProfile inserts for a new identity
NewUser(tgId) ==
  [telegramId |-> tgId, referralCode |-> makeReferralCode(tgId),
   balance |-> 0, balanceLocked |-> 0,
   confirmedReferrals |-> 0, primaryUPI |-> <<>>,
   awaitingUpiSetup |-> FALSE, draftUpiSetup |-> <<>>,
   awaitingWithdrawUPI |-> FALSE, awaitingWithdrawUPIConfirm |-> FALSE,
   draftWithdrawUPI |-> <<>>, awaitingSupportMessage |-> FALSE]

NoHist ==
  [credits |-> <<>>, selects |-> <<>>, refunds |-> <<>>, paid |-> <<>>,
   locks |-> [u \in UserIds |-> 0], draftRefunds |-> [u \in UserIds |-> 0],
   opening |-> [u \in UserIds |-> 0], adminCredits |-> [u \in UserIds |-> 0]]


\* a handler ends: its slot is free again and its reply is sent
Finish(s, msg) ==
  /\ h' = [h EXCEPT ![s] = Idle]
  /\ lastReply' = [kind |-> h[s].kind, from |-> h[s].from, msg |-> msg]

\* a handler moves on to its next store operation
Goto(s, handler) ==
  /\ h' = [h EXCEPT ![s] = handler]
  /\ UNCHANGED lastReply

Running(s, kinds, pc) ==
  /\ h[s].pc = pc
  /\ h[s].kind \in kinds

(***************************************************************************)
(* The updates the bot receives                                            *)
(***************************************************************************)
\* (free slots are alike: an update takes the first one)
Free(s) ==
  /\ h[s] = Idle
  /\ \A r \in Slots : r < s => h[r] # Idle

Accepting(s) ==
  /\ Free(s)
  /\ events < MaxEvents

Receive(s, handler) ==
  /\ events' = events + 1
  /\ h' = [h EXCEPT ![s] = handler]
  /\ UNCHANGED <<usersCol, pendingCol, refsCol, withdrawalsCol, now, requiredChannelsCol,
                 lastReply, hist>>

\* /withdraw, or the WITHDRAW button
BeginWithdraw(s) ==
  \E f \in UserIds :
    /\ Accepting(s)
    /\ Receive(s, [kind |-> "withdraw", pc |-> "ensure", from |-> f, u |-> Null])

\* /setupi, or the SETUP_UPI button
BeginSetupi(s) ==
  \E f \in UserIds :
    /\ Accepting(s)
    /\ Receive(s, [kind |-> "setupi", pc |-> "ensure", from |-> f, u |-> Null])

\* the SUPPORT button: its handler starts with its store operation
BeginSupport(s) ==
  \E f \in UserIds :
    /\ Accepting(s)
    /\ Receive(s, [kind |-> "support", pc |-> "supportSet", from |-> f,
                   u |-> Null])

\* a text message that is no command: const text = ctx.message.text.trim()
SendText(s, texts) ==
  \E f \in UserIds, t \in texts :
    /\ Accepting(s)
    /\ Receive(s, [kind |-> "text", pc |-> "find", from |-> f, text |-> trim(t),
                   u |-> Null])

BeginText(s) == SendText(s, Texts)

\* a command registered after bot.on("text") passes through the text handler
\* first; a command line starts with "/" and so is neither 'cancel', 'confirm'
\* nor a UPI
CommandText == <<"/">>

\* parts[1] of /pay and /cancelwithdraw: the 24 hexadecimal digits of an id
\* (1, 2, ... stand for them), or a text that is none (0)
IdTexts == 0..MaxWithdrawalId

\* new ObjectId(id) returns the id for 24 hexadecimal digits and throws for
\* any other text
ObjectIdThrows(id) == id = 0

\* /pay <withdrawalId>
BeginPay(s) ==
  \E f \in UserIds, id \in IdTexts :
    /\ Accepting(s)
    /\ Receive(s, [kind |-> "pay", pc |-> "find", from |-> f,
                   text |-> CommandText, u |-> Null, id |-> id, w |-> Null])

\* /cancelwithdraw <id>
BeginCancelWithdraw(s) ==
  \E f \in UserIds, id \in IdTexts :
    /\ Accepting(s)
    /\ Receive(s, [kind |-> "cancelwithdraw", pc |-> "find", from |-> f,
                   text |-> CommandText, u |-> Null, id |-> id, w |-> Null])

\* /admin_credit <telegramId> <amount> [note]
CreditCommand(s, amounts) ==
  \E f \in UserIds, target \in UserIds, amount \in amounts :
    /\ Accepting(s)
    /\ Receive(s, [kind |-> "admin_credit", pc |-> "find", from |-> f,
                   text |-> CommandText, u |-> Null, targetId |-> target,
                   amount |-> amount])

BeginAdminCredit(s) == CreditCommand(s, CreditAmounts)

\* /admin_credit with an amount that may be 0
BeginAdminCreditOrZero(s) == CreditCommand(s, {0, MIN_WITHDRAWAL})

(***************************************************************************)
(* ensureUserProfile and the flows it starts                               *)
(***************************************************************************)
\* startWithdrawFlow up to its store operation: the two rejections
MissingLockGuard(user) ==
  IF user.balance < MIN_WITHDRAWAL THEN "below_minimum" ELSE "lock"

MissingMinimumGuard(user) ==
  IF user.balanceLocked > 0 THEN "already_pending" ELSE "lock"

startWithdrawFlow(user) ==
  IF user.balanceLocked > 0 THEN "already_pending"
  ELSE IF user.balance < MIN_WITHDRAWAL THEN "below_minimum"
  ELSE "lock"

(***************************************************************************)
(* The text handler (bot.on("text")) up to its first write                 *)
(***************************************************************************)
\* the branch the handler takes for the account it read and the text
WithdrawBranchFirst(u, text) ==
  LET lower == toLowerCase(text) IN
  IF u.awaitingWithdrawUPI
  THEN IF lower = TxtCancel THEN "wdCancel"
       ELSE IF UPI_REGEX(text) THEN "wdDraft"
       ELSE "wdReprompt"
  ELSE IF u.awaitingUpiSetup
  THEN IF lower = TxtCancel THEN "upiCancel"
       ELSE IF UPI_REGEX(text) THEN "upiDraft"
       ELSE "upiReprompt"
  ELSE IF u.awaitingSupportMessage THEN "supportClear"
  ELSE "next"

textBranch(u, text) ==
  LET lower == toLowerCase(text) IN
  IF u.awaitingUpiSetup
  THEN IF lower = TxtCancel THEN "upiCancel"
       ELSE IF lower = TxtConfirm
            THEN IF u.draftUpiSetup = <<>> THEN "upiNoDraft" ELSE "upiSave"
       ELSE IF UPI_REGEX(text) THEN "upiDraft"
       ELSE "upiReprompt"
  ELSE IF u.awaitingWithdrawUPI
  THEN IF lower = TxtCancel THEN "wdCancel"
       ELSE IF lower = TxtConfirm
            THEN IF ~u.awaitingWithdrawUPIConfirm \/ u.draftWithdrawUPI = <<>>
                 THEN "wdNotConfirmable"
                 ELSE "wdInsert"
       ELSE IF UPI_REGEX(text) THEN "wdDraft"
       ELSE "wdReprompt"
  ELSE IF u.awaitingSupportMessage THEN "supportClear"
  ELSE "next"

\* the branches that go on to a store operation
WriteBranches ==
  {"upiCancel", "upiSave", "upiDraft", "wdCancel", "wdInsert", "wdDraft",
   "supportClear"}

\* a check that lets every amount through
AnyAmount(amount) == FALSE

\* if (amount === 0) return ctx.reply("Amount cannot be zero.")
zeroAmount(amount) == amount = 0

\* next(): the command handlers registered after the text handler, up to
\* their first store operation
Command(s) ==
  IF h[s].kind = "text" THEN Finish(s, "no_handler")
  ELSE IF ~isAdmin(h[s].from) THEN Finish(s, "Unauthorized")
  ELSE IF h[s].kind = "pay" THEN Goto(s, [h[s] EXCEPT !.pc = "payFind"])
  ELSE IF h[s].kind = "cancelwithdraw"
       THEN Goto(s, [h[s] EXCEPT !.pc = "cwFind"])
  ELSE IF h[s].kind = "admin_confirm"
       THEN Goto(s, [h[s] EXCEPT
                       !.pc = "select",
                       !.force = includes(toLowerCase(h[s].text), TxtForce)])
  ELSE IF zeroAmount(h[s].amount) THEN Finish(s, "Amount cannot be zero.")
  ELSE Goto(s, [h[s] EXCEPT !.pc = "acFind"])

\* what a handler does with the profile it read (created records, for a
\* start, whether ensureUserProfile inserted the profile or found it)
WithProfile(s, u) ==
  IF h[s].kind = "start"
  THEN IF startsWith(h[s].payload, TxtRef)
       THEN Goto(s, [h[s] EXCEPT !.pc = "findReferrer", !.u = u,
                                 !.created = (h[s].pc = "insertUser")])
       ELSE Finish(s, "menu")
  ELSE IF h[s].kind = "withdraw"
  THEN IF startWithdrawFlow(u) = "lock"
       THEN Goto(s, [h[s] EXCEPT !.pc = "lock", !.u = u])
       ELSE Finish(s, startWithdrawFlow(u))
  ELSE IF h[s].kind = "setupi"
  THEN Goto(s, [h[s] EXCEPT !.pc = "setUpi", !.u = u])
  ELSE IF textBranch(u, h[s].text) \in WriteBranches
  THEN Goto(s, [h[s] EXCEPT !.pc = textBranch(u, h[s].text), !.u = u])
  ELSE IF textBranch(u, h[s].text) = "next" THEN Command(s)
  ELSE Finish(s, textBranch(u, h[s].text))

TextKinds == {"text", "pay", "cancelwithdraw", "admin_credit", "admin_confirm"}

\* let u = await usersCol.findOne({ telegramId: ctx.from.id })
TextFind(s) ==
  /\ Running(s, TextKinds, "find")
  /\ IF usersCol[h[s].from] = Null
     THEN Goto(s, [h[s] EXCEPT !.pc = "ensure"])
     ELSE WithProfile(s, usersCol[h[s].from])
  /\ UNCHANGED <<usersCol, pendingCol, refsCol, withdrawalsCol, now, requiredChannelsCol, events, hist>>

\* ensureUserProfile: usersCol.findOne({ telegramId })
EnsureFind(s) ==
  /\ Running(s, {"start", "withdraw", "setupi"} \cup TextKinds, "ensure")
  /\ IF usersCol[h[s].from] = Null
     THEN Goto(s, [h[s] EXCEPT !.pc = "insertUser"])
     ELSE WithProfile(s, usersCol[h[s].from])
  /\ UNCHANGED <<usersCol, pendingCol, refsCol, withdrawalsCol, now, requiredChannelsCol, events, hist>>

\* the update startWithdrawFlow writes for the account `user` it was given:
\* $set setFields (the saved UPI, if any, is the draft), $inc balance
LocksWithoutDebit(doc, user) ==
  LET spendable == user.balance IN
  [doc EXCEPT !.awaitingWithdrawUPI = TRUE,
              !.balanceLocked = spendable,
              !.awaitingWithdrawUPIConfirm = (user.primaryUPI # <<>>),
              !.draftWithdrawUPI = user.primaryUPI]

lockSpendable(doc, user) ==
  LET spendable == user.balance IN
  [doc EXCEPT !.awaitingWithdrawUPI = TRUE,
              !.balanceLocked = spendable,
              !.awaitingWithdrawUPIConfirm = (user.primaryUPI # <<>>),
              !.draftWithdrawUPI = user.primaryUPI,
              !.balance = @ - spendable]

\* startWithdrawFlow: usersCol.updateOne($set setFields, $inc balance)
WithdrawLock(s) ==
  /\ Running(s, {"withdraw"}, "lock")
  /\ LET u == h[s].u
     IN /\ usersCol' =
             [usersCol EXCEPT ![u.telegramId] = lockSpendable(@, u)]
        /\ hist' = [hist EXCEPT !.locks[u.telegramId] = @ + 1]
  /\ Finish(s, "send_upi")
  /\ UNCHANGED <<pendingCol, refsCol, withdrawalsCol, now, requiredChannelsCol, events>>

\* startUpiSetup: usersCol.updateOne($set awaitingUpiSetup, draftUpiSetup)
SetUpi(s) ==
  /\ Running(s, {"setupi"}, "setUpi")
  /\ usersCol' =
       [usersCol EXCEPT ![h[s].u.telegramId] =
          [@ EXCEPT !.awaitingUpiSetup = TRUE, !.draftUpiSetup = <<>>]]
  /\ Finish(s, "send_new_upi")
  /\ UNCHANGED <<pendingCol, refsCol, withdrawalsCol, now, requiredChannelsCol, events,
                 hist>>

\* SUPPORT: usersCol.updateOne({ telegramId }, $set awaitingSupportMessage),
\* which matches nothing when the identity has no profile
SupportSet(s) ==
  /\ Running(s, {"support"}, "supportSet")
  /\ usersCol' =
       IF usersCol[h[s].from] = Null THEN usersCol
       ELSE [usersCol EXCEPT ![h[s].from].awaitingSupportMessage = TRUE]
  /\ Finish(s, "type_support_message")
  /\ UNCHANGED <<pendingCol, refsCol, withdrawalsCol, now, requiredChannelsCol, events,
                 hist>>

\* ensureUserProfile: usersCol.insertOne(u); the unique index on telegramId
\* makes the insert of a second document for the identity throw, which ends
\* the handler in its catch
InsertUser(s) ==
  /\ Running(s, {"start", "withdraw", "setupi"} \cup TextKinds, "insertUser")
  /\ IF usersCol[h[s].from] = Null
     THEN /\ usersCol' = [usersCol EXCEPT ![h[s].from] = NewUser(h[s].from)]
          /\ WithProfile(s, NewUser(h[s].from))
     ELSE /\ UNCHANGED usersCol
          /\ IF h[s].kind = "start"
             THEN h' = [h EXCEPT ![s] = Idle] /\ UNCHANGED lastReply
             ELSE Finish(s, "error")
  /\ UNCHANGED <<pendingCol, refsCol, withdrawalsCol, now, requiredChannelsCol, events,
                 hist>>

(***************************************************************************)
(* bot.start: the referral link                                            *)
(***************************************************************************)
\* parts[1] || "" of /start: nothing, the code of a user, a code that no
\* user has, or a word that is no code
Payloads ==
  {<<>>, makeReferralCode(1), makeReferralCode(2), makeReferralCode(3),
   <<"h", "i">>}

\* /start [payload]
BeginStart(s) ==
  \E f \in UserIds, payload \in Payloads :
    /\ Accepting(s)
    /\ Receive(s, [kind |-> "start", pc |-> "ensure", from |-> f,
                   text |-> CommandText, u |-> Null, payload |-> payload,
                   referrer |-> 0, created |-> FALSE])

\* usersCol.findOne({ referralCode: code })
FindByCode(code) ==
  IF \E k \in DOMAIN usersCol :
       usersCol[k] # Null /\ usersCol[k].referralCode = code
  THEN usersCol[CHOOSE k \in DOMAIN usersCol :
                  usersCol[k] # Null /\ usersCol[k].referralCode = code]
  ELSE Null

\* const referrer = await usersCol.findOne({ referralCode: payload });
\* if (referrer && referrer.telegramId !== user.telegramId)
StartFindReferrer(s) ==
  /\ Running(s, {"start"}, "findReferrer")
  /\ LET referrer == FindByCode(h[s].payload)
     IN IF referrer # Null /\ referrer.telegramId # h[s].u.telegramId
        THEN Goto(s, [h[s] EXCEPT !.pc = "findPending",
                                  !.referrer = referrer.telegramId])
        ELSE Finish(s, "menu")
  /\ UNCHANGED <<usersCol, pendingCol, refsCol, withdrawalsCol, now, requiredChannelsCol, events,
                 hist>>

\* await pendingCol.findOne({ referredId: user.telegramId })
StartFindPending(s) ==
  /\ Running(s, {"start"}, "findPending")
  /\ IF \E p \in 1..Len(pendingCol) :
          pendingCol[p].referredId = h[s].u.telegramId
     THEN Finish(s, "menu")
     ELSE Goto(s, [h[s] EXCEPT !.pc = "findRef"])
  /\ UNCHANGED <<usersCol, pendingCol, refsCol, withdrawalsCol, now, requiredChannelsCol, events,
                 hist>>

\* await refsCol.findOne({ referredId: user.telegramId })
StartFindRef(s) ==
  /\ Running(s, {"start"}, "findRef")
  /\ IF \E r \in 1..Len(refsCol) : refsCol[r].referredId = h[s].u.telegramId
     THEN Finish(s, "menu")
     ELSE Goto(s, [h[s] EXCEPT !.pc = "insertPending"])
  /\ UNCHANGED <<usersCol, pendingCol, refsCol, withdrawalsCol, now, requiredChannelsCol, events,
                 hist>>

\* the document of pendingCol.insertOne
PendingReferral(referrer, referred, createdAt) ==
  [referrerId |-> referrer, referredId |-> referred, createdAt |-> createdAt,
   status |-> "pending", reason |-> "", confirmedAt |-> -1]

\* await pendingCol.insertOne({ referredId, referrerId, referralCode,
\* createdAt: new Date(), status: "pending" }), then the notification of
\* the referrer and the main menu
StartInsertPending(s) ==
  /\ Running(s, {"start"}, "insertPending")
  /\ pendingCol' = Append(pendingCol,
                          PendingReferral(h[s].referrer, h[s].u.telegramId, now))
  /\ hist' = [hist EXCEPT !.credits = Append(@, 0), !.selects = Append(@, 0)]
  /\ Finish(s, "menu")
  /\ UNCHANGED <<usersCol, refsCol, withdrawalsCol, now, requiredChannelsCol, events>>

(***************************************************************************)
(* The text handler's writes                                               *)
(***************************************************************************)
\* usersCol.updateOne({ telegramId }, update) on the account the handler read
UpdateUser(s, doc) ==
  usersCol' = [usersCol EXCEPT ![h[s].u.telegramId] = doc]

\* 'cancel' while setting the UPI: $unset awaitingUpiSetup, draftUpiSetup
UpiCancel(s) ==
  /\ Running(s, TextKinds, "upiCancel")
  /\ UpdateUser(s, [usersCol[h[s].u.telegramId] EXCEPT
                      !.awaitingUpiSetup = FALSE, !.draftUpiSetup = <<>>])
  /\ Finish(s, "upi_setup_cancelled")
  /\ UNCHANGED <<pendingCol, refsCol, withdrawalsCol, now, requiredChannelsCol, events,
                 hist>>

\* an update that saves the UPI and leaves the setup open
KeepsSetupOpen(doc, draft) == [doc EXCEPT !.primaryUPI = draft]

\* { $set: { primaryUPI: u.draftUpiSetup }, $unset: { awaitingUpiSetup,
\* draftUpiSetup } }
savePrimaryUpi(doc, draft) ==
  [doc EXCEPT !.primaryUPI = draft, !.awaitingUpiSetup = FALSE,
              !.draftUpiSetup = <<>>]

\* 'confirm' while setting the UPI: $set primaryUPI, $unset the setup fields
UpiSave(s) ==
  /\ Running(s, TextKinds, "upiSave")
  /\ UpdateUser(s, savePrimaryUpi(usersCol[h[s].u.telegramId],
                                  h[s].u.draftUpiSetup))
  /\ Finish(s, "upi_saved")
  /\ UNCHANGED <<pendingCol, refsCol, withdrawalsCol, now, requiredChannelsCol, events,
                 hist>>

\* a UPI while setting the UPI: $set draftUpiSetup
UpiDraft(s) ==
  /\ Running(s, TextKinds, "upiDraft")
  /\ UpdateUser(s, [usersCol[h[s].u.telegramId] EXCEPT
                      !.draftUpiSetup = h[s].text])
  /\ Finish(s, "upi_captured")
  /\ UNCHANGED <<pendingCol, refsCol, withdrawalsCol, now, requiredChannelsCol, events,
                 hist>>

\* the amount 'cancel' gives back: $inc: { balance: u.balanceLocked || 0 },
\* of the document the handler read (u), not of the stored one
CancelRefund(u, stored) == u.balanceLocked

\* 'cancel' while drafting a withdrawal: $inc balance, $unset the draft
\* fields and balanceLocked
WdCancel(s) ==
  /\ Running(s, TextKinds, "wdCancel")
  /\ LET id == h[s].u.telegramId IN
     /\ UpdateUser(s, [usersCol[id] EXCEPT
                         !.balance = @ + CancelRefund(h[s].u, usersCol[id]),
                         !.awaitingWithdrawUPI = FALSE,
                         !.awaitingWithdrawUPIConfirm = FALSE,
                         !.draftWithdrawUPI = <<>>,
                         !.balanceLocked = 0])
     /\ hist' = [hist EXCEPT !.draftRefunds[id] = @ + 1]
  /\ Finish(s, "withdrawal_cancelled")
  /\ UNCHANGED <<pendingCol, refsCol, withdrawalsCol, now, requiredChannelsCol, events>>

\* 'confirm' while drafting a withdrawal: withdrawalsCol.insertOne
WdInsert(s) ==
  /\ Running(s, TextKinds, "wdInsert")
  /\ withdrawalsCol' =
       Append(withdrawalsCol,
              [userId |-> h[s].u.telegramId, upi |-> h[s].u.draftWithdrawUPI,
               amount |-> h[s].u.balanceLocked, requestedAt |-> now,
               status |-> "pending"])
  /\ hist' = [hist EXCEPT !.refunds = Append(@, 0), !.paid = Append(@, 0)]
  /\ Goto(s, [h[s] EXCEPT !.pc = "wdClear"])
  /\ UNCHANGED <<usersCol, pendingCol, refsCol, now, requiredChannelsCol, events>>

\* ... then usersCol.updateOne: $unset the draft fields, $set primaryUPI
WdClear(s) ==
  /\ Running(s, TextKinds, "wdClear")
  /\ UpdateUser(s, [usersCol[h[s].u.telegramId] EXCEPT
                      !.awaitingWithdrawUPI = FALSE,
                      !.awaitingWithdrawUPIConfirm = FALSE,
                      !.draftWithdrawUPI = <<>>,
                      !.primaryUPI = h[s].u.draftWithdrawUPI])
  /\ Finish(s, "withdrawal_requested")
  /\ UNCHANGED <<pendingCol, refsCol, withdrawalsCol, now, requiredChannelsCol, events,
                 hist>>

\* a UPI while drafting a withdrawal: $set draftWithdrawUPI and the confirm flag
WdDraft(s) ==
  /\ Running(s, TextKinds, "wdDraft")
  /\ UpdateUser(s, [usersCol[h[s].u.telegramId] EXCEPT
                      !.draftWithdrawUPI = h[s].text,
                      !.awaitingWithdrawUPIConfirm = TRUE])
  /\ Finish(s, "upi_noted")
  /\ UNCHANGED <<pendingCol, refsCol, withdrawalsCol, now, requiredChannelsCol, events,
                 hist>>

\* any text while a support message is awaited: $unset awaitingSupportMessage
SupportClear(s) ==
  /\ Running(s, TextKinds, "supportClear")
  /\ UpdateUser(s, [usersCol[h[s].u.telegramId] EXCEPT
                      !.awaitingSupportMessage = FALSE])
  /\ Finish(s, "support_forwarded")
  /\ UNCHANGED <<pendingCol, refsCol, withdrawalsCol, now, requiredChannelsCol, events,
                 hist>>

(***************************************************************************)
(* The administrator's commands                                            *)
(***************************************************************************)
\* withdrawalsCol.findOne({ _id, status: "pending" })
FindPendingWithdrawal(id) ==
  IF id \in 1..Len(withdrawalsCol) /\ withdrawalsCol[id].status = "pending"
  THEN [_id |-> id, userId |-> withdrawalsCol[id].userId,
        amount |-> withdrawalsCol[id].amount]
  ELSE Null

\* /pay: find the pending withdrawal; catch (e) replies "Error: " + e.message
PayFind(s) ==
  /\ Running(s, {"pay"}, "payFind")
  /\ IF ObjectIdThrows(h[s].id)
     THEN Finish(s, "Error")
     ELSE IF FindPendingWithdrawal(h[s].id) = Null
     THEN Finish(s, "Not found.")
     ELSE Goto(s, [h[s] EXCEPT !.pc = "payMark",
                               !.w = FindPendingWithdrawal(h[s].id)])
  /\ UNCHANGED <<usersCol, pendingCol, refsCol, withdrawalsCol, now, requiredChannelsCol, events, hist>>

\* /pay: withdrawalsCol.updateOne({ _id: w._id }, $set status "paid")
PayMark(s) ==
  /\ Running(s, {"pay"}, "payMark")
  /\ withdrawalsCol' = [withdrawalsCol EXCEPT ![h[s].w._id].status = "paid"]
  /\ hist' = [hist EXCEPT !.paid[h[s].w._id] = @ + 1]
  /\ Goto(s, [h[s] EXCEPT !.pc = "payUnlock"])
  /\ UNCHANGED <<usersCol, pendingCol, refsCol, now, requiredChannelsCol, events>>

\* an update that leaves the document as it is
KeepsLock(doc) == doc

\* { $unset: { balanceLocked: "" } }
unsetBalanceLocked(doc) == [doc EXCEPT !.balanceLocked = 0]

\* /pay: usersCol.updateOne({ telegramId: w.userId }, $unset balanceLocked)
PayUnlock(s) ==
  /\ Running(s, {"pay"}, "payUnlock")
  /\ usersCol' = [usersCol EXCEPT ![h[s].w.userId] = unsetBalanceLocked(@)]
  /\ Finish(s, "Marked paid.")
  /\ UNCHANGED <<pendingCol, refsCol, withdrawalsCol, now, requiredChannelsCol, events,
                 hist>>

\* /cancelwithdraw: find the pending withdrawal; the handler has no
\* try/catch, so what new ObjectId throws leaves the handler without a reply
CwFind(s) ==
  /\ Running(s, {"cancelwithdraw"}, "cwFind")
  /\ IF ObjectIdThrows(h[s].id)
     THEN h' = [h EXCEPT ![s] = Idle] /\ UNCHANGED lastReply
     ELSE IF FindPendingWithdrawal(h[s].id) = Null
     THEN Finish(s, "Not found.")
     ELSE Goto(s, [h[s] EXCEPT !.pc = "cwMark",
                               !.w = FindPendingWithdrawal(h[s].id)])
  /\ UNCHANGED <<usersCol, pendingCol, refsCol, withdrawalsCol, now, requiredChannelsCol, events, hist>>

\* /cancelwithdraw: withdrawalsCol.updateOne({ _id }, $set status "cancelled")
CwMark(s) ==
  /\ Running(s, {"cancelwithdraw"}, "cwMark")
  /\ withdrawalsCol' =
       [withdrawalsCol EXCEPT ![h[s].w._id].status = "cancelled"]
  /\ Goto(s, [h[s] EXCEPT !.pc = "cwRefund"])
  /\ UNCHANGED <<usersCol, pendingCol, refsCol, now, requiredChannelsCol, events, hist>>

\* an update that gives back what the account holds locked
RefundsLock(doc, amount) ==
  [doc EXCEPT !.balance = @ + doc.balanceLocked, !.balanceLocked = 0]

\* an update that gives the amount back and leaves the lock
RefundKeepsLock(doc, amount) == [doc EXCEPT !.balance = @ + amount]

\* { $inc: { balance: w.amount }, $unset: { balanceLocked: "" } }
refund(doc, amount) ==
  [doc EXCEPT !.balance = @ + amount, !.balanceLocked = 0]

\* /cancelwithdraw: usersCol.updateOne($inc balance w.amount, $unset
\* balanceLocked)
CwRefund(s) ==
  /\ Running(s, {"cancelwithdraw"}, "cwRefund")
  /\ usersCol' = [usersCol EXCEPT ![h[s].w.userId] = refund(@, h[s].w.amount)]
  /\ hist' = [hist EXCEPT !.refunds[h[s].w._id] = @ + 1]
  /\ Finish(s, "Cancelled and refunded.")
  /\ UNCHANGED <<pendingCol, refsCol, withdrawalsCol, now, requiredChannelsCol, events>>

\* /admin_credit: usersCol.findOne({ telegramId: targetId })
AcFind(s) ==
  /\ Running(s, {"admin_credit"}, "acFind")
  /\ IF usersCol[h[s].targetId] = Null
     THEN Finish(s, "User not found.")
     ELSE Goto(s, [h[s] EXCEPT !.pc = "acInc"])
  /\ UNCHANGED <<usersCol, pendingCol, refsCol, withdrawalsCol, now, requiredChannelsCol, events, hist>>

\* an update that writes the amount instead of adding it
SetsBalance(doc, amount) == [doc EXCEPT !.balance = amount]

\* { $inc: { balance: amount } }
incBalance(doc, amount) == [doc EXCEPT !.balance = @ + amount]

\* /admin_credit: usersCol.updateOne({ telegramId }, $inc balance amount)
AcInc(s) ==
  /\ Running(s, {"admin_credit"}, "acInc")
  /\ usersCol' = [usersCol EXCEPT ![h[s].targetId] = incBalance(@, h[s].amount)]
  /\ hist' = [hist EXCEPT !.adminCredits[h[s].targetId] = @ + h[s].amount]
  /\ Finish(s, "Credited")
  /\ UNCHANGED <<pendingCol, refsCol, withdrawalsCol, now, requiredChannelsCol, events>>

(***************************************************************************)
(* confirmPendingReferrals: the confirmation pass and what starts it       *)
(***************************************************************************)
PassKinds == {"sweep", "admin_confirm", "ADMIN_CONFIRM"}

\* the handler of a trigger, before the pass has selected anything
Pass(kind, from, text, force) ==
  [kind |-> kind, pc |-> "find", from |-> from, text |-> text, u |-> Null,
   force |-> force, pendings |-> <<>>, i |-> 0, mark |-> "none",
   confirmed |-> 0, invalidated |-> 0]

\* setInterval(() => confirmPendingReferrals(), 5 minutes), and the pass run
\* at startup: a timer is no update, it fires whenever the interval has gone
BeginSweep(s) ==
  /\ Free(s)
  /\ h' = [h EXCEPT ![s] =
             [Pass("sweep", 0, <<>>, FALSE) EXCEPT !.pc = "select"]]
  /\ UNCHANGED <<usersCol, pendingCol, refsCol, withdrawalsCol, now, requiredChannelsCol, events,
                 lastReply, hist>>

\* what follows the command name in /admin_confirm
ConfirmArgs == {<<>>, <<" ">> \o TxtForce, <<" ">> \o TxtForceUpper}

\* /admin_confirm [force]
BeginAdminConfirm(s) ==
  \E f \in UserIds, arg \in ConfirmArgs :
    /\ Accepting(s)
    /\ Receive(s, Pass("admin_confirm", f, trim(CommandText \o arg), FALSE))

\* the ADMIN_CONFIRM button
BeginAdminConfirmTap(s) ==
  \E f \in UserIds :
    /\ Accepting(s)
    /\ Receive(s, [Pass("ADMIN_CONFIRM", f, <<>>, TRUE) EXCEPT
                     !.pc = "answerCbQuery"])

\* bot.action("ADMIN_CONFIRM") after await ctx.answerCbQuery()
AdminConfirmTap(s) ==
  /\ Running(s, {"ADMIN_CONFIRM"}, "answerCbQuery")
  /\ IF ~isAdmin(h[s].from)
     THEN Finish(s, "Unauthorized")
     ELSE Goto(s, [h[s] EXCEPT !.pc = "select"])
  /\ UNCHANGED <<usersCol, pendingCol, refsCol, withdrawalsCol, now, requiredChannelsCol, events,
                 hist>>

\* const cutoff = new Date(Date.now() - CONFIRM_DELAY_HOURS * 3600 * 1000)
cutoff == now - CONFIRM_DELAY_HOURS

\* a query that leaves the cutoff out: only a forced pass finds anything
ForcedOnly(force, p) ==
  /\ p.status = "pending"
  /\ force

\* a query that asks for the status alone, forced or not
IgnoresCutoff(force, p) == p.status = "pending"

\* the query of the pass, on one document
query(force, p) ==
  /\ p.status = "pending"
  /\ force \/ p.createdAt <= cutoff

\* pendingCol.find(query).toArray(): the _ids among the first n documents
RECURSIVE find(_, _)
find(force, n) ==
  IF n = 0 THEN <<>>
  ELSE IF query(force, pendingCol[n]) THEN Append(find(force, n - 1), n)
  ELSE find(force, n - 1)

\* return summary, and the reply of the handler that called the pass
PassReturn(s, hd) ==
  /\ h' = [h EXCEPT ![s] = Idle]
  /\ lastReply' =
       IF hd.kind = "sweep" THEN lastReply
       ELSE [kind |-> hd.kind, from |-> hd.from,
             msg |-> IF hd.kind = "admin_confirm"
                     THEN IF hd.force THEN "complete_forced"
                          ELSE "complete_standard"
                     ELSE IF hd.confirmed > 0 THEN "audit_confirmed"
                     ELSE "audit_none",
             confirmed |-> hd.confirmed, invalidated |-> hd.invalidated]

\* a test that lets every document through
NeverSelf(p) == FALSE

\* if (p.referredId === p.referrerId)
selfReferral(p) == p.referredId = p.referrerId

\* for (const p of pendings): the pass takes up its i-th document, up to the
\* store operation it awaits first
TakeUp(s, hd, i) ==
  IF i > Len(hd.pendings) THEN PassReturn(s, hd)
  ELSE LET p == pendingCol[hd.pendings[i]]
       IN IF selfReferral(p)
          THEN Goto(s, [hd EXCEPT !.i = i, !.pc = "mark",
                                  !.mark = "self_referral"])
          ELSE Goto(s, [hd EXCEPT !.i = i, !.pc = "findReferred",
                                  !.mark = "none"])

\* const pendings = await pendingCol.find(query).toArray()
PassSelect(s) ==
  /\ Running(s, PassKinds, "select")
  /\ TakeUp(s, [h[s] EXCEPT !.pendings = find(h[s].force, Len(pendingCol))], 1)
  /\ hist' = [hist EXCEPT !.selects =
                [p \in 1..Len(pendingCol) |->
                   IF query(h[s].force, pendingCol[p]) THEN @[p] + 1 ELSE @[p]]]
  /\ UNCHANGED <<usersCol, pendingCol, refsCol, withdrawalsCol, now, requiredChannelsCol, events>>

\* const referred = await usersCol.findOne({ telegramId: p.referredId })
PassFindReferred(s) ==
  /\ Running(s, PassKinds, "findReferred")
  /\ LET p == pendingCol[h[s].pendings[h[s].i]]
     IN IF usersCol[p.referredId] = Null
        THEN Goto(s, [h[s] EXCEPT !.pc = "mark", !.mark = "no_user_record"])
        ELSE Goto(s, [h[s] EXCEPT !.pc = "credit"])
  /\ UNCHANGED <<usersCol, pendingCol, refsCol, withdrawalsCol, now, requiredChannelsCol, events,
                 hist>>

\* an update that writes the reward instead of adding it
SetsReward(doc) ==
  [doc EXCEPT !.balance = REFERRAL_REWARD, !.confirmedReferrals = 1]

\* { $inc: { balance: REFERRAL_REWARD, confirmedReferrals: 1 } }
incReward(doc) ==
  [doc EXCEPT !.balance = @ + REFERRAL_REWARD, !.confirmedReferrals = @ + 1]

\* usersCol.findOneAndUpdate({ telegramId: p.referrerId },
\*   { $inc: { balance: REFERRAL_REWARD, confirmedReferrals: 1 } })
PassCredit(s) ==
  /\ Running(s, PassKinds, "credit")
  /\ LET id == h[s].pendings[h[s].i]
         p == pendingCol[id]
     IN IF usersCol[p.referrerId] = Null
        THEN /\ Goto(s, [h[s] EXCEPT !.pc = "mark",
                                     !.mark = "no_referrer_record"])
             /\ UNCHANGED <<usersCol, hist>>
        ELSE /\ usersCol' = [usersCol EXCEPT ![p.referrerId] = incReward(@)]
             /\ hist' = [hist EXCEPT !.credits[id] = @ + 1]
             /\ Goto(s, [h[s] EXCEPT !.pc = "mark", !.mark = "confirmed"])
  /\ UNCHANGED <<pendingCol, refsCol, withdrawalsCol, now, requiredChannelsCol, events>>

\* pendingCol.updateOne({ _id: p._id }, { $set: ... }): the filter is the _id
\* alone, and $set writes the fields it names
PassMark(s) ==
  /\ Running(s, PassKinds, "mark")
  /\ LET id == h[s].pendings[h[s].i]
     IN IF h[s].mark = "confirmed"
        THEN /\ pendingCol' =
                  [pendingCol EXCEPT ![id] =
                     [@ EXCEPT !.status = "confirmed", !.confirmedAt = now]]
             /\ Goto(s, [h[s] EXCEPT !.pc = "insertRef"])
        ELSE /\ pendingCol' =
                  [pendingCol EXCEPT ![id] =
                     [@ EXCEPT !.status = "invalid", !.reason = h[s].mark]]
             /\ TakeUp(s, [h[s] EXCEPT !.invalidated = @ + 1], h[s].i + 1)
  /\ UNCHANGED <<usersCol, refsCol, withdrawalsCol, now, requiredChannelsCol, events, hist>>

\* refsCol.insertOne({ referrerId, referredId, referralCode, confirmedAt }),
\* then the notification and summary.confirmed.push(p._id)
PassInsertRef(s) ==
  /\ Running(s, PassKinds, "insertRef")
  /\ LET p == pendingCol[h[s].pendings[h[s].i]]
     IN refsCol' = Append(refsCol, [referrerId |-> p.referrerId,
                                    referredId |-> p.referredId,
                                    confirmedAt |-> now])
  /\ TakeUp(s, [h[s] EXCEPT !.confirmed = @ + 1], h[s].i + 1)
  /\ UNCHANGED <<usersCol, pendingCol, withdrawalsCol, now, requiredChannelsCol, events, hist>>

\* time passes: the clock is read in hours and moves a day at a time
Tick ==
  /\ now < 24 * MaxTime
  /\ now' = now + 24
  /\ UNCHANGED <<requiredChannelsCol, usersCol, pendingCol, refsCol, withdrawalsCol, h, events,
                 lastReply, hist>>

(***************************************************************************)
(* The referrals: confirmation passes started by the timer and by the      *)
(* administrators                                                          *)
(***************************************************************************)
\* The stores as the bot's earlier runs can have left them: both users have
\* a profile, user 2 came through user 1's link, and user 1 may have come
\* back through user 2's; the bot starts on the day of the referrals or two
\* days later.
InitReferral ==
  /\ usersCol = [u \in UserIds |-> NewUser(u)]
  /\ pendingCol \in {<<PendingReferral(1, 2, 0)>>,
                     <<PendingReferral(1, 2, 0), PendingReferral(2, 1, 0)>>}
  /\ hist = [NoHist EXCEPT !.credits = [p \in 1..Len(pendingCol) |-> 0],
                           !.selects = [p \in 1..Len(pendingCol) |-> 0]]
  /\ refsCol = <<>>
  /\ withdrawalsCol = <<>>
  /\ now \in {0, CONFIRM_DELAY_HOURS}
  /\ h = [s \in Slots |-> Idle]
  /\ events = 0
  /\ requiredChannelsCol = <<>>
  /\ lastReply = NoReply

PassStep(s) ==
  \/ PassSelect(s)
  \/ PassFindReferred(s)
  \/ PassCredit(s)
  \/ PassMark(s)
  \/ PassInsertRef(s)

NextReferral ==
  \/ \E s \in Slots :
       \/ BeginSweep(s)
       \/ BeginAdminConfirm(s)
       \/ BeginAdminConfirmTap(s)
       \/ AdminConfirmTap(s)
       \/ TextFind(s)
       \/ PassStep(s)
  \/ Tick

SpecReferral == InitReferral /\ [][NextReferral]_vars

\* C1: on account of one PendingReferral the referrer is credited (balance
\* plus the reward, confirmedReferrals plus one) at most once, however the
\* passes interleave
CreditedOnce ==
  \A p \in 1..Len(pendingCol) : hist.credits[p] <= 1

\* C9: a PendingReferral whose status is confirmed or invalid is not
\* changed again: status, reason and confirmedAt stay as they are
TerminalStays ==
  [][\A p \in 1..Len(pendingCol) :
       pendingCol[p].status # "pending" => pendingCol'[p] = pendingCol[p]]_vars

\* the sweep beside the administrators' manual runs, standard and forced
NextForce ==
  \/ \E s \in Slots :
       \/ BeginSweep(s)
       \/ BeginAdminConfirm(s)
       \/ TextFind(s)
       \/ PassStep(s)
  \/ Tick

SpecForce == InitReferral /\ [][NextForce]_vars

\* C14: a pass that is not forced changes no PendingReferral created later
\* than now minus the delay and credits nothing for it; a forced pass
\* selects every pending document whatever its age, and the pass's mark
\* leaves the document it took up confirmed or invalid
ForceAndDelay ==
  [][/\ \A p \in 1..Len(pendingCol) :
          (pendingCol'[p] # pendingCol[p] \/ hist'.credits[p] # hist.credits[p])
          => \E s \in Slots :
               /\ h[s].pc \in {"credit", "mark"}
               /\ h'[s] # h[s]
               /\ h[s].pendings[h[s].i] = p
               /\ h[s].force \/ pendingCol[p].createdAt <= cutoff
     /\ \A s \in Slots :
          (h[s].pc = "select" /\ h[s].force /\ h'[s] # h[s])
          => \A p \in 1..Len(pendingCol) :
               pendingCol[p].status = "pending"
               => /\ h'[s].pc # "idle"
                  /\ \E k \in 1..Len(h'[s].pendings) : h'[s].pendings[k] = p
     /\ \A s \in Slots :
          (h[s].pc = "mark" /\ h'[s] # h[s])
          => pendingCol'[h[s].pendings[h[s].i]].status
               \in {"confirmed", "invalid"}]_vars

\* a forced pass has confirmed a document before its delay had gone by, and
\* a standard run of /admin_confirm has returned without confirming anything
ForceAndDelayWitness ==
  \E p \in 1..Len(pendingCol) :
    /\ pendingCol[p].status = "confirmed"
    /\ pendingCol[p].confirmedAt < pendingCol[p].createdAt + CONFIRM_DELAY_HOURS
    /\ hist.selects[p] = 1
    /\ lastReply.msg = "complete_standard"
    /\ lastReply.confirmed = 0

(***************************************************************************)
(* The periodic sweep, as long as it keeps running                         *)
(***************************************************************************)
NextSweep ==
  \/ \E s \in Slots :
       \/ BeginSweep(s)
       \/ BeginAdminConfirmTap(s)
       \/ AdminConfirmTap(s)
       \/ PassStep(s)
  \/ Tick

\* The timer keeps firing, every call a handler awaits returns, and the clock
\* goes on; nothing is assumed of what the administrators do.
SweepRuns ==
  /\ WF_vars(\E s \in Slots : BeginSweep(s))
  /\ \A s \in Slots : WF_vars(AdminConfirmTap(s) \/ PassStep(s))
  /\ WF_vars(Tick)

SpecSweep == InitReferral /\ [][NextSweep]_vars /\ SweepRuns

PendingIds == {1, 2}

\* C10: every PendingReferral whose status is pending comes to status
\* confirmed or invalid, the sweep running on
EventuallyTerminal ==
  \A p \in PendingIds :
    (p <= Len(pendingCol) /\ pendingCol[p].status = "pending")
      ~> (p <= Len(pendingCol) /\ pendingCol[p].status # "pending")

\* a sweep has marked the document it took up confirmed
EventuallyTerminalWitness ==
  \E s \in Slots :
    /\ h[s].pc = "insertRef"
    /\ h[s].kind = "sweep"
    /\ pendingCol[h[s].pendings[h[s].i]].status = "confirmed"
    /\ pendingCol[h[s].pendings[h[s].i]].confirmedAt >= CONFIRM_DELAY_HOURS

(***************************************************************************)
(* The pass over what the pending collection may hold                      *)
(***************************************************************************)
\* the identities with a profile: a referrer and the users that came through
\* its link
AuditIds == {1, 2, 3}

\* The documents of the pending collection. The collection outlives the
\* running version of the bot, and the pass tests every document it selects
\* for referredId === referrerId: such a document is part of what the pass
\* may read, although bot.start of this version inserts none.
AuditRecords ==
  {PendingReferral(1, 1, 0), PendingReferral(1, 2, 0), PendingReferral(1, 3, 0)}

\* two or three of the documents, stored in any order; the referrer starts
\* with nothing or with the minimum
InitAudit ==
  /\ \E bal \in {0, MIN_WITHDRAWAL} :
       /\ usersCol = [u \in AuditIds |->
                        IF u = 1 THEN [NewUser(u) EXCEPT !.balance = bal]
                        ELSE NewUser(u)]
       /\ \E a \in AuditRecords :
            \E b \in AuditRecords \ {a} :
              \/ pendingCol = <<a, b>>
              \/ \E c \in AuditRecords \ {a, b} : pendingCol = <<a, b, c>>
       /\ hist = [NoHist EXCEPT !.credits = [p \in 1..Len(pendingCol) |-> 0],
                                !.selects = [p \in 1..Len(pendingCol) |-> 0],
                                !.opening[1] = bal]
  /\ refsCol = <<>>
  /\ withdrawalsCol = <<>>
  /\ now \in {0, CONFIRM_DELAY_HOURS}
  /\ h = [s \in Slots |-> Idle]
  /\ events = 0
  /\ requiredChannelsCol = <<>>
  /\ lastReply = NoReply

\* (the passes of one hour: before the delay has gone by, where only a
\* forced pass selects anything, or after it)
NextAudit ==
  \E s \in Slots :
    \/ BeginSweep(s)
    \/ BeginAdminConfirmTap(s)
    \/ AdminConfirmTap(s)
    \/ PassStep(s)

SpecAudit == InitAudit /\ [][NextAudit]_vars

\* the positions of a pass at which it works on the document it took up
RecordPcs == {"findReferred", "credit", "mark", "insertRef"}

\* C11: a PendingReferral whose referredId is its referrerId, taken up by a
\* pass (forced or not), is marked invalid with reason self_referral by the
\* pass's one step on it; no account is changed by that step, and no step
\* credits anyone for the document or marks it confirmed
SelfReferralInvalid ==
  [][/\ \A s \in Slots :
          (/\ h[s].pc \in RecordPcs
           /\ h'[s] # h[s]
           /\ pendingCol[h[s].pendings[h[s].i]].referredId
                = pendingCol[h[s].pendings[h[s].i]].referrerId)
          => /\ h[s].pc = "mark"
             /\ pendingCol'[h[s].pendings[h[s].i]].status = "invalid"
             /\ pendingCol'[h[s].pendings[h[s].i]].reason = "self_referral"
             /\ usersCol' = usersCol
     /\ \A p \in 1..Len(pendingCol) :
          pendingCol[p].referredId = pendingCol[p].referrerId
          => /\ hist'.credits[p] = hist.credits[p]
             /\ pendingCol'[p].status # "confirmed"]_vars

\* a pass selected a self-referral and left it invalid, reason self_referral
SelfReferralInvalidWitness ==
  \E p \in 1..Len(pendingCol) :
    /\ pendingCol[p].referredId = pendingCol[p].referrerId
    /\ hist.selects[p] >= 1
    /\ pendingCol[p].status = "invalid"
    /\ pendingCol[p].reason = "self_referral"
    /\ Len(refsCol) > 0

\* the documents naming referrer r that a pass selected and that are no
\* self-referrals
SelectedFor(r) ==
  {p \in 1..Len(pendingCol) :
     /\ pendingCol[p].referrerId = r
     /\ pendingCol[p].referredId # r
     /\ hist.selects[p] >= 1}

\* C13: when the passes are done and no document was selected by more than
\* one of them, a referrer's balance has grown by the reward times the
\* number of selected documents naming it, and its confirmedReferrals by that
\* number, in whichever order the documents were stored and processed
OrderIndependent ==
  (/\ \A s \in Slots : h[s] = Idle
   /\ \A p \in 1..Len(pendingCol) : hist.selects[p] <= 1)
  => \A r \in UserIds :
       /\ usersCol[r].balance
            = hist.opening[r] + REFERRAL_REWARD * Cardinality(SelectedFor(r))
       /\ usersCol[r].confirmedReferrals = Cardinality(SelectedFor(r))

\* one pass has confirmed two documents naming the same referrer, which
\* were stored behind a third one
OrderIndependentWitness ==
  /\ \A s \in Slots : h[s] = Idle
  /\ \A p \in 1..Len(pendingCol) : hist.selects[p] = 1
  /\ Len(pendingCol) = 3
  /\ pendingCol[1].referredId = 3
  /\ Cardinality(SelectedFor(1)) = 2
  /\ usersCol[1].confirmedReferrals = 2

(***************************************************************************)
(* Referral links: /start with a payload                                   *)
(***************************************************************************)
\* The stores as the bot's earlier runs can have left them. User 1 has a
\* profile; user 2 is new, or has a profile and no referral, or came through
\* user 1's link, which is pending or was confirmed after the delay.
InitStart ==
  /\ \/ /\ usersCol \in {[u \in UserIds |-> IF u = 1 THEN NewUser(u) ELSE Null],
                         [u \in UserIds |-> NewUser(u)]}
        /\ pendingCol = <<>>
        /\ refsCol = <<>>
        /\ hist = NoHist
        /\ now = 0
     \/ /\ usersCol = [u \in UserIds |-> NewUser(u)]
        /\ pendingCol = <<PendingReferral(1, 2, 0)>>
        /\ refsCol = <<>>
        /\ hist = [NoHist EXCEPT !.credits = <<0>>, !.selects = <<0>>]
        /\ now = 0
     \/ /\ usersCol = [u \in UserIds |->
                         IF u = 1 THEN incReward(NewUser(u)) ELSE NewUser(u)]
        /\ pendingCol =
             <<[PendingReferral(1, 2, 0) EXCEPT
                  !.status = "confirmed", !.confirmedAt = CONFIRM_DELAY_HOURS]>>
        /\ refsCol = <<[referrerId |-> 1, referredId |-> 2,
                        confirmedAt |-> CONFIRM_DELAY_HOURS]>>
        /\ hist = [NoHist EXCEPT !.credits = <<1>>, !.selects = <<1>>,
                                 !.opening[1] = REFERRAL_REWARD]
        /\ now = CONFIRM_DELAY_HOURS
  /\ withdrawalsCol = <<>>
  /\ h = [s \in Slots |-> Idle]
  /\ events = 0
  /\ requiredChannelsCol = <<>>
  /\ lastReply = NoReply

NextStart ==
  \E s \in Slots :
    \/ BeginStart(s)
    \/ EnsureFind(s)
    \/ InsertUser(s)
    \/ StartFindReferrer(s)
    \/ StartFindPending(s)
    \/ StartFindRef(s)
    \/ StartInsertPending(s)

SpecStart == InitStart /\ [][NextStart]_vars

\* C12: no two PendingReferral documents, whatever their status, have the
\* same referredId
OneReferralPerReferred ==
  \A p \in 1..Len(pendingCol), q \in 1..Len(pendingCol) :
    pendingCol[p].referredId = pendingCol[q].referredId => p = q

(***************************************************************************)
(* The ledger: the withdrawal flows and the administrator's commands       *)
(***************************************************************************)
\* The stores as the bot's earlier runs can have left them. User 1 is new,
\* or was credited the minimum (with or without a saved UPI), or is drafting
\* a withdrawal of it, or has requested it; hist tells how the state arose.
Funded(u, upi) == [NewUser(u) EXCEPT !.balance = MIN_WITHDRAWAL, !.primaryUPI = upi]

Drafting(u) ==
  [NewUser(u) EXCEPT !.balanceLocked = MIN_WITHDRAWAL, !.primaryUPI = TxtUpiA,
                     !.awaitingWithdrawUPI = TRUE,
                     !.awaitingWithdrawUPIConfirm = TRUE,
                     !.draftWithdrawUPI = TxtUpiA]

Requested(u) ==
  [NewUser(u) EXCEPT !.balanceLocked = MIN_WITHDRAWAL, !.primaryUPI = TxtUpiA]

RequestOf(u) ==
  [userId |-> u, upi |-> TxtUpiA, amount |-> MIN_WITHDRAWAL, requestedAt |-> 0,
   status |-> "pending"]

Stores(users, withdrawals, history) ==
  /\ usersCol = users
  /\ withdrawalsCol = withdrawals
  /\ hist = [history EXCEPT !.opening = [u \in UserIds |-> users[u].balance]]
  /\ pendingCol = <<>>
  /\ refsCol = <<>>
  /\ now = 0
  /\ h = [s \in Slots |-> Idle]
  /\ events = 0
  /\ requiredChannelsCol = <<>>
  /\ lastReply = NoReply

InitLedger ==
  \/ \E doc \in {NewUser(1), Funded(1, <<>>), Funded(1, TxtUpiA)} :
       Stores([u \in UserIds |-> IF u = 1 THEN doc ELSE NewUser(u)], <<>>,
              NoHist)
  \/ Stores([u \in UserIds |-> IF u = 1 THEN Drafting(u) ELSE NewUser(u)],
            <<>>, [NoHist EXCEPT !.locks[1] = 1])
  \/ Stores([u \in UserIds |-> IF u = 1 THEN Requested(u) ELSE NewUser(u)],
            <<RequestOf(1)>>,
            [NoHist EXCEPT !.locks[1] = 1, !.refunds = <<0>>, !.paid = <<0>>])

NextLedger ==
  \E s \in Slots :
    \/ BeginWithdraw(s)
    \/ BeginSetupi(s)
    \/ BeginText(s)
    \/ BeginPay(s)
    \/ BeginCancelWithdraw(s)
    \/ BeginAdminCredit(s)
    \/ EnsureFind(s)
    \/ WithdrawLock(s)
    \/ SetUpi(s)
    \/ TextFind(s)
    \/ UpiCancel(s)
    \/ UpiSave(s)
    \/ UpiDraft(s)
    \/ WdCancel(s)
    \/ WdInsert(s)
    \/ WdClear(s)
    \/ WdDraft(s)
    \/ PayFind(s)
    \/ PayMark(s)
    \/ PayUnlock(s)
    \/ CwFind(s)
    \/ CwMark(s)
    \/ CwRefund(s)
    \/ AcFind(s)
    \/ AcInc(s)

SpecLedger == InitLedger /\ [][NextLedger]_vars

(***************************************************************************)
(* Properties of the ledger                                                *)
(***************************************************************************)
\* balance + balanceLocked of an account
Funds(doc) == doc.balance + doc.balanceLocked

\* the step is the last store operation of a /pay that settles a withdrawal
\* of u
SettlesWithdrawalOf(u) ==
  \E s \in Slots :
    /\ h[s].pc = "payUnlock"
    /\ h[s].w.userId = u
    /\ h'[s] = Idle

\* the step is the store operation of an /admin_credit of a negative amount
\* to u
DebitsByAdmin(u) ==
  \E s \in Slots :
    /\ h[s].pc = "acInc"
    /\ h[s].targetId = u
    /\ h[s].amount < 0
    /\ h'[s] = Idle

\* C2: balance + balanceLocked of an account decreases in no step other than
\* a withdrawal's settlement by /pay and an /admin_credit of a negative
\* amount
Conservation ==
  [][\A u \in UserIds :
       \/ Funds(usersCol'[u]) >= Funds(usersCol[u])
       \/ SettlesWithdrawalOf(u)
       \/ DebitsByAdmin(u)]_vars

\* C3: every account's balance is at least 0 in every reachable state
BalanceNonNegative ==
  \A u \in UserIds : usersCol[u].balance >= 0

\* C4: a withdrawal's amount is refunded into the balance at most once, and
\* never when the withdrawal was also marked paid
SettledOnce ==
  \A w \in 1..Len(withdrawalsCol) :
    /\ hist.refunds[w] <= 1
    /\ ~(hist.paid[w] >= 1 /\ hist.refunds[w] >= 1)

\* the withdrawal records of an account
WithdrawalsOf(u) ==
  {w \in 1..Len(withdrawalsCol) : withdrawalsCol[w].userId = u}

\* C5: of every amount an account locked, 'cancel' gave back to the balance
\* at most once, and what 'cancel' gave back did not also become a
\* Withdrawal record: refunds by 'cancel' plus withdrawals created never
\* exceed the locks taken
LockReleasedOnce ==
  \A u \in UserIds :
    hist.draftRefunds[u] + Cardinality(WithdrawalsOf(u)) <= hist.locks[u]

\* C6: an account has at most one Withdrawal with status pending
OnePendingWithdrawal ==
  \A u \in UserIds :
    Cardinality({w \in WithdrawalsOf(u) :
                   withdrawalsCol[w].status = "pending"}) <= 1

\* C7: a withdrawal start that reads an account with balanceLocked > 0 ends
\* there, answering that a withdrawal is pending, and writes no account and
\* no Withdrawal
LockedStartRejected ==
  [][\A s \in Slots :
       (/\ h[s].pc = "ensure"
        /\ h[s].kind = "withdraw"
        /\ h'[s] # h[s]
        /\ usersCol[h[s].from].balanceLocked > 0)
       => /\ h'[s] = Idle
          /\ lastReply' = [kind |-> "withdraw", from |-> h[s].from,
                           msg |-> "already_pending"]
          /\ usersCol' = usersCol
          /\ withdrawalsCol' = withdrawalsCol]_vars

\* the case happens: a start was rejected for an account that holds a lock and has
\* enough balance for a second one
LockedStartRejectedWitness ==
  \E u \in UserIds :
    /\ lastReply = [kind |-> "withdraw", from |-> u, msg |-> "already_pending"]
    /\ usersCol[u].balanceLocked > 0
    /\ usersCol[u].balance >= MIN_WITHDRAWAL

\* C15: /pay or /cancelwithdraw with an id that matches no Withdrawal with
\* status pending (the withdrawal is paid or cancelled, or the id is that of
\* none) replies Not found and changes no Withdrawal and no account
NotFoundNoChange ==
  [][\A s \in Slots :
       (/\ h[s].pc \in {"payFind", "cwFind"}
        /\ h'[s] # h[s]
        /\ FindPendingWithdrawal(h[s].id) = Null)
       => /\ h'[s] = Idle
          /\ lastReply' = [kind |-> h[s].kind, from |-> h[s].from,
                           msg |-> "Not found."]
          /\ usersCol' = usersCol
          /\ withdrawalsCol' = withdrawalsCol]_vars

\* C16: the two writes of a /pay that found its withdrawal pending: the
\* first sets that withdrawal's status to paid and changes no other
\* withdrawal and no account; the second clears balanceLocked of the owning
\* account and changes neither its balance, nor any other of its fields, nor
\* any other account or withdrawal
SettleFrame ==
  [][\A s \in Slots :
       /\ (h[s].pc = "payMark" /\ h'[s] # h[s])
          => /\ withdrawalsCol' =
                  [withdrawalsCol EXCEPT ![h[s].w._id].status = "paid"]
             /\ usersCol' = usersCol
       /\ (h[s].pc = "payUnlock" /\ h'[s] # h[s])
          => /\ usersCol'[h[s].w.userId].balanceLocked = 0
             /\ usersCol'[h[s].w.userId].balance
                  = usersCol[h[s].w.userId].balance
             /\ usersCol' = [usersCol EXCEPT ![h[s].w.userId].balanceLocked = 0]
             /\ withdrawalsCol' = withdrawalsCol
             /\ lastReply' = [kind |-> "pay", from |-> h[s].from,
                              msg |-> "Marked paid."]]_vars

\* a /pay has settled a withdrawal of an account that holds a balance
SettleFrameWitness ==
  /\ lastReply.kind = "pay"
  /\ lastReply.msg = "Marked paid."
  /\ \E w \in 1..Len(withdrawalsCol) :
       /\ withdrawalsCol[w].status = "paid"
       /\ usersCol[withdrawalsCol[w].userId].balanceLocked = 0
       /\ usersCol[withdrawalsCol[w].userId].balance > 0

\* C17: the two writes of a /cancelwithdraw that found its withdrawal
\* pending: the first sets that withdrawal's status to cancelled, the second
\* adds the withdrawal's amount to the balance of the owning account and
\* clears its balanceLocked
CancelFrame ==
  [][\A s \in Slots :
       /\ (h[s].pc = "cwMark" /\ h'[s] # h[s])
          => /\ withdrawalsCol' =
                  [withdrawalsCol EXCEPT ![h[s].w._id].status = "cancelled"]
             /\ usersCol' = usersCol
       /\ (h[s].pc = "cwRefund" /\ h'[s] # h[s])
          => /\ usersCol'[h[s].w.userId].balance
                  = usersCol[h[s].w.userId].balance
                    + withdrawalsCol[h[s].w._id].amount
             /\ usersCol'[h[s].w.userId].balanceLocked = 0
             /\ withdrawalsCol' = withdrawalsCol
             /\ lastReply' = [kind |-> "cancelwithdraw", from |-> h[s].from,
                              msg |-> "Cancelled and refunded."]]_vars

\* a /cancelwithdraw has refunded a withdrawal that no /pay had settled
CancelFrameWitness ==
  /\ lastReply.kind = "cancelwithdraw"
  /\ lastReply.msg = "Cancelled and refunded."
  /\ \E w \in 1..Len(withdrawalsCol) :
       /\ withdrawalsCol[w].status = "cancelled"
       /\ hist.refunds[w] = 1
       /\ hist.paid[w] = 0
       /\ usersCol[withdrawalsCol[w].userId].balance
            = withdrawalsCol[w].amount

(***************************************************************************)
(* The round trip: a withdrawal is started and then cancelled, one handler *)
(* at a time                                                               *)
(***************************************************************************)
\* 'cancel' in the letter cases users type it
CancelTexts == {TxtCancel, TxtCancelUpper, TxtCancelMixed}

\* The accounts that can start a withdrawal: the balance is the minimum or
\* more and nothing is locked; the user may have a saved UPI, may have opened
\* the UPI setup (/setupi, with or without a candidate sent) and may have
\* pressed SUPPORT, none of which a balance prevents.
Spendable(bal, upi, setup, draft, support) ==
  [NewUser(1) EXCEPT !.balance = bal, !.primaryUPI = upi,
                     !.awaitingUpiSetup = setup, !.draftUpiSetup = draft,
                     !.awaitingSupportMessage = support]

InitRoundTrip ==
  \E bal \in {MIN_WITHDRAWAL, MIN_WITHDRAWAL + REFERRAL_REWARD},
     upi \in {<<>>, TxtUpiA}, setup \in BOOLEAN, draft \in {<<>>, TxtUpiB},
     support \in BOOLEAN :
    /\ ~setup => draft = <<>>
    /\ Stores([u \in UserIds |->
                 IF u = 1 THEN Spendable(bal, upi, setup, draft, support)
                 ELSE NewUser(u)],
              <<>>, NoHist)

Quiet == \A s \in Slots : h[s] = Idle

NextRoundTrip ==
  \E s \in Slots :
    \/ Quiet /\ events = 0 /\ BeginWithdraw(s)
    \/ Quiet /\ events = 1 /\ SendText(s, CancelTexts)
    \/ EnsureFind(s)
    \/ WithdrawLock(s)
    \/ TextFind(s)
    \/ UpiCancel(s)
    \/ WdCancel(s)

SpecRoundTrip == InitRoundTrip /\ [][NextRoundTrip]_vars

\* C8: when an account with balance B of the minimum or more and no lock
\* has started a withdrawal and its 'cancel' (in any letter case) has been
\* handled, its balance is B, nothing is locked, the withdrawal flags and
\* draft are cleared and there is no Withdrawal
CancelRestores ==
  \A u \in UserIds :
    (/\ Quiet
     /\ events = 2
     /\ hist.locks[u] = 1
     /\ lastReply.kind = "text"
     /\ lastReply.from = u)
    => /\ usersCol[u].balance = hist.opening[u]
       /\ usersCol[u].balanceLocked = 0
       /\ ~usersCol[u].awaitingWithdrawUPI
       /\ ~usersCol[u].awaitingWithdrawUPIConfirm
       /\ usersCol[u].draftWithdrawUPI = <<>>
       /\ withdrawalsCol = <<>>

(***************************************************************************)
(* The conversation: what a user's commands, buttons and texts do to the   *)
(* account's intent flags                                                  *)
(***************************************************************************)
\* User 1 holds the minimum, with or without a saved UPI; user 2 is new.
InitIntent ==
  \E upi \in {<<>>, TxtUpiA} :
    Stores([u \in UserIds |-> IF u = 1 THEN Funded(u, upi) ELSE NewUser(u)],
           <<>>, NoHist)

NextIntent ==
  \E s \in Slots :
    \/ BeginWithdraw(s)
    \/ BeginSetupi(s)
    \/ BeginSupport(s)
    \/ BeginText(s)
    \/ EnsureFind(s)
    \/ WithdrawLock(s)
    \/ SetUpi(s)
    \/ SupportSet(s)
    \/ TextFind(s)
    \/ UpiCancel(s)
    \/ UpiSave(s)
    \/ UpiDraft(s)
    \/ WdCancel(s)
    \/ WdInsert(s)
    \/ WdClear(s)
    \/ WdDraft(s)
    \/ SupportClear(s)

SpecIntent == InitIntent /\ [][NextIntent]_vars

\* the intents an account has active
Intents(u) ==
  {i \in {"SettingPayoutTarget", "DraftingWithdrawal", "AwaitingSupport"} :
     \/ i = "SettingPayoutTarget" /\ u.awaitingUpiSetup
     \/ i = "DraftingWithdrawal" /\ u.awaitingWithdrawUPI
     \/ i = "AwaitingSupport" /\ u.awaitingSupportMessage}

\* C18: an account has at most one of the intents UPI setup, drafting a
\* withdrawal and awaiting a support message active
OneIntent ==
  \A u \in UserIds :
    usersCol[u] # Null => Cardinality(Intents(usersCol[u])) <= 1

(***************************************************************************)
(* The ledger with its updates handled one at a time: an update is taken   *)
(* up when no handler is under way                                         *)
(***************************************************************************)
\* User 1 is new, or was credited the minimum (with or without a saved UPI),
\* or has requested a withdrawal of it.
InitSerial ==
  \/ \E doc \in {NewUser(1), Funded(1, <<>>), Funded(1, TxtUpiA)} :
       Stores([u \in UserIds |-> IF u = 1 THEN doc ELSE NewUser(u)], <<>>,
              NoHist)
  \/ Stores([u \in UserIds |-> IF u = 1 THEN Requested(u) ELSE NewUser(u)],
            <<RequestOf(1)>>,
            [NoHist EXCEPT !.locks[1] = 1, !.refunds = <<0>>, !.paid = <<0>>])

NextSerial ==
  \E s \in Slots :
    \/ Quiet /\ BeginWithdraw(s)
    \/ Quiet /\ BeginSetupi(s)
    \/ Quiet /\ BeginText(s)
    \/ Quiet /\ BeginPay(s)
    \/ Quiet /\ BeginCancelWithdraw(s)
    \/ Quiet /\ BeginAdminCredit(s)
    \/ EnsureFind(s)
    \/ WithdrawLock(s)
    \/ SetUpi(s)
    \/ TextFind(s)
    \/ UpiCancel(s)
    \/ UpiSave(s)
    \/ UpiDraft(s)
    \/ WdCancel(s)
    \/ WdInsert(s)
    \/ WdClear(s)
    \/ WdDraft(s)
    \/ PayFind(s)
    \/ PayMark(s)
    \/ PayUnlock(s)
    \/ CwFind(s)
    \/ CwMark(s)
    \/ CwRefund(s)
    \/ AcFind(s)
    \/ AcInc(s)

SpecSerial == InitSerial /\ [][NextSerial]_vars

\* the Withdrawals of an account that have status pending
PendingOf(u) ==
  {w \in WithdrawalsOf(u) : withdrawalsCol[w].status = "pending"}

ConfirmCreates ==
  [][\A s \in Slots :
       LET u == usersCol[h[s].from] IN
       /\ (/\ h[s].pc = "find"
           /\ h[s].kind = "text"
           /\ toLowerCase(h[s].text) = TxtConfirm
           /\ h'[s] # h[s]
           /\ u # Null
           /\ u.awaitingWithdrawUPI)
          => /\ usersCol' = usersCol
             /\ withdrawalsCol' = withdrawalsCol
             /\ IF ~u.awaitingWithdrawUPIConfirm \/ u.draftWithdrawUPI = <<>>
                THEN h'[s] = Idle
                ELSE h'[s].pc = "wdInsert"
       /\ (h[s].pc = "wdInsert" /\ h'[s] # h[s])
          => /\ withdrawalsCol' =
                  Append(withdrawalsCol,
                         [userId |-> h[s].from, upi |-> u.draftWithdrawUPI,
                          amount |-> u.balanceLocked, requestedAt |-> now,
                          status |-> "pending"])
             /\ usersCol' = usersCol
             /\ h'[s].pc = "wdClear"
       /\ (h[s].pc = "wdClear" /\ h'[s] # h[s])
          => /\ usersCol' =
                  [usersCol EXCEPT ![h[s].from] =
                     [u EXCEPT !.awaitingWithdrawUPI = FALSE,
                               !.awaitingWithdrawUPIConfirm = FALSE,
                               !.draftWithdrawUPI = <<>>,
                               !.primaryUPI = u.draftWithdrawUPI]]
             /\ withdrawalsCol' = withdrawalsCol
             /\ h'[s] = Idle]_vars

\* the same for the accounts that have no UPI setup open beside the draft
ConfirmCreatesNoSetup ==
  [][\A s \in Slots :
       LET u == usersCol[h[s].from] IN
       (/\ h[s].pc = "find"
        /\ h[s].kind = "text"
        /\ toLowerCase(h[s].text) = TxtConfirm
        /\ h'[s] # h[s]
        /\ u # Null
        /\ u.awaitingWithdrawUPI
        /\ ~u.awaitingUpiSetup)
       => /\ usersCol' = usersCol
          /\ withdrawalsCol' = withdrawalsCol
          /\ IF ~u.awaitingWithdrawUPIConfirm \/ u.draftWithdrawUPI = <<>>
             THEN h'[s] = Idle
             ELSE h'[s].pc = "wdInsert"]_vars

\* C21: a text of an account that is awaiting a support message is taken
\* by the support branch, which forwards it to the administrators and clears
\* awaitingSupportMessage
SupportForwarded ==
  [][\A s \in Slots :
       LET u == usersCol[h[s].from] IN
       /\ (/\ h[s].pc = "find"
           /\ h[s].kind = "text"
           /\ h'[s] # h[s]
           /\ u # Null
           /\ u.awaitingSupportMessage)
          => h'[s].pc = "supportClear"
       /\ (h[s].pc = "supportClear" /\ h'[s] # h[s])
          => /\ ~usersCol'[h[s].from].awaitingSupportMessage
             /\ lastReply' = [kind |-> "text", from |-> h[s].from,
                              msg |-> "support_forwarded"]]_vars

\* C22: a 'confirm' of an account that is setting its UPI: with no draft
\* stored it ends with the usage reply and writes nothing; with a draft
\* stored it goes on to one write that sets primaryUPI to the draft it read
\* and clears awaitingUpiSetup and draftUpiSetup, and changes nothing else
ConfirmSetup ==
  [][\A s \in Slots :
       LET u == usersCol[h[s].from] IN
       /\ (/\ h[s].pc = "find"
           /\ h[s].kind = "text"
           /\ toLowerCase(h[s].text) = TxtConfirm
           /\ h'[s] # h[s]
           /\ u # Null
           /\ u.awaitingUpiSetup)
          => /\ usersCol' = usersCol
             /\ withdrawalsCol' = withdrawalsCol
             /\ IF u.draftUpiSetup = <<>>
                THEN /\ h'[s] = Idle
                     /\ lastReply' = [kind |-> "text", from |-> h[s].from,
                                      msg |-> "upiNoDraft"]
                ELSE /\ h'[s].pc = "upiSave"
                     /\ h'[s].u = u
       /\ (h[s].pc = "upiSave" /\ h'[s] # h[s])
          => /\ usersCol'[h[s].from].primaryUPI = h[s].u.draftUpiSetup
             /\ ~usersCol'[h[s].from].awaitingUpiSetup
             /\ usersCol'[h[s].from].draftUpiSetup = <<>>
             /\ usersCol' =
                  [usersCol EXCEPT ![h[s].from] =
                     [u EXCEPT !.primaryUPI = h[s].u.draftUpiSetup,
                               !.awaitingUpiSetup = FALSE,
                               !.draftUpiSetup = <<>>]]
             /\ withdrawalsCol' = withdrawalsCol
             /\ h'[s] = Idle]_vars

\* a 'confirm' has saved the UPI the user sent during the setup
ConfirmSetupWitness ==
  /\ lastReply.kind = "text"
  /\ lastReply.msg = "upi_saved"
  /\ usersCol[lastReply.from].primaryUPI \in {TxtUpiA, TxtUpiB}
  /\ ~usersCol[lastReply.from].awaitingUpiSetup
  /\ usersCol[lastReply.from].draftUpiSetup = <<>>

(***************************************************************************)
(* The administrator's operations, called by the administrator and by      *)
(* others, with an amount that may be 0; an update is taken up when no     *)
(* handler is under way                                                    *)
(***************************************************************************)
\* an account that pressed SUPPORT and has not written yet
AwaitingSupport(u) == [NewUser(u) EXCEPT !.awaitingSupportMessage = TRUE]

\* Either identity may not have talked to the bot yet (no profile), may have
\* a fresh profile or may have pressed SUPPORT; user 1 may have requested a
\* withdrawal. When both have a profile, user 1 was referred by user 2 long
\* enough ago for a pass to take the referral up.
InitAdmin ==
  \E d1 \in {Null, NewUser(1), AwaitingSupport(1), Requested(1)},
     d2 \in {Null, NewUser(2), AwaitingSupport(2)} :
    /\ usersCol = [u \in UserIds |-> IF u = 1 THEN d1 ELSE d2]
    /\ withdrawalsCol = IF d1 = Requested(1) THEN <<RequestOf(1)>> ELSE <<>>
    /\ pendingCol = IF d1 # Null /\ d2 # Null
                    THEN <<PendingReferral(2, 1, 0)>> ELSE <<>>
    /\ hist = [NoHist EXCEPT
                 !.credits = [p \in 1..Len(pendingCol) |-> 0],
                 !.selects = [p \in 1..Len(pendingCol) |-> 0],
                 !.refunds = [w \in 1..Len(withdrawalsCol) |-> 0],
                 !.paid = [w \in 1..Len(withdrawalsCol) |-> 0],
                 !.locks = [u \in UserIds |->
                              IF u = 1 /\ d1 = Requested(1) THEN 1 ELSE 0]]
    /\ refsCol = <<>>
    /\ now = CONFIRM_DELAY_HOURS
    /\ h = [s \in Slots |-> Idle]
    /\ events = 0
    /\ requiredChannelsCol = <<>>
    /\ lastReply = NoReply

NextAdmin ==
  \E s \in Slots :
    \/ Quiet /\ BeginPay(s)
    \/ Quiet /\ BeginCancelWithdraw(s)
    \/ Quiet /\ BeginAdminCreditOrZero(s)
    \/ Quiet /\ BeginAdminConfirm(s)
    \/ Quiet /\ BeginAdminConfirmTap(s)
    \/ AdminConfirmTap(s)
    \/ TextFind(s)
    \/ EnsureFind(s)
    \/ InsertUser(s)
    \/ SupportClear(s)
    \/ PayFind(s)
    \/ PayMark(s)
    \/ PayUnlock(s)
    \/ CwFind(s)
    \/ CwMark(s)
    \/ CwRefund(s)
    \/ AcFind(s)
    \/ AcInc(s)
    \/ PassStep(s)

SpecAdmin == InitAdmin /\ [][NextAdmin]_vars

\* the balance fields of every account that exists stay as they are, and no
\* account other than u changes
SameBalances(u) ==
  \A v \in UserIds :
    /\ v # u => usersCol'[v] = usersCol[v]
    /\ usersCol[v] # Null
       => /\ usersCol'[v].balance = usersCol[v].balance
          /\ usersCol'[v].balanceLocked = usersCol[v].balanceLocked
          /\ usersCol'[v].confirmedReferrals = usersCol[v].confirmedReferrals

\* the administrator's /admin_credit with amount 0
ZeroCredit(hd) ==
  /\ hd # Idle
  /\ hd.kind = "admin_credit"
  /\ hd.from \in ADMIN_IDS
  /\ hd.amount = 0

\* C23 as the specification words it: an /admin_credit with amount 0 is
\* answered 'Amount cannot be zero.' by its first step, which reads and
\* writes no store
ZeroCreditNoStore ==
  [][\A s \in Slots :
       (ZeroCredit(h[s]) /\ h'[s] # h[s])
       => /\ h[s].pc \notin {"find", "ensure", "insertUser"}
          /\ h'[s] = Idle
          /\ lastReply' = [kind |-> "admin_credit", from |-> h[s].from,
                           msg |-> "Amount cannot be zero."]
          /\ usersCol' = usersCol]_vars

\* C23: an /admin_credit with amount 0 never looks up or updates the target
\* account, changes no balance and no record other than the sender's own
\* account (which the text handler reads, creates when missing, and whose
\* awaitingSupportMessage it clears), and a sender that has a profile and no
\* intent is answered 'Amount cannot be zero.' right after that read
ZeroCreditNoEffect ==
  [][\A s \in Slots :
       (ZeroCredit(h[s]) /\ h'[s] # h[s])
       => /\ h'[s].pc \notin {"acFind", "acInc"}
          /\ SameBalances(h[s].from)
          /\ UNCHANGED <<withdrawalsCol, pendingCol, refsCol>>
          /\ LET u == usersCol[h[s].from] IN
             (h[s].pc = "find" /\ u # Null /\ Intents(u) = {})
             => /\ h'[s] = Idle
                /\ lastReply'.msg = "Amount cannot be zero."
                /\ usersCol' = usersCol]_vars

\* an /admin_credit with amount 0 for an account that exists was answered
\* 'Amount cannot be zero.'
ZeroCreditNoEffectWitness ==
  /\ lastReply.kind = "admin_credit"
  /\ lastReply.msg = "Amount cannot be zero."
  /\ \E u \in UserIds \ ADMIN_IDS : usersCol[u] # Null

\* an operation of the administrator called by somebody else
Unauthorized(hd) ==
  /\ hd # Idle
  /\ hd.kind \in {"pay", "cancelwithdraw", "admin_confirm", "ADMIN_CONFIRM",
                  "admin_credit"}
  /\ hd.from \notin ADMIN_IDS

\* C25 as the specification words it: an operation of the administrator
\* called by somebody else changes no account, PendingReferral,
\* ConfirmedReferral or Withdrawal, and ends answered 'Unauthorized'
UnauthorizedNoChange ==
  [][\A s \in Slots :
       (Unauthorized(h[s]) /\ h'[s] # h[s])
       => /\ UNCHANGED <<usersCol, withdrawalsCol, pendingCol, refsCol>>
          /\ h'[s] = Idle => lastReply'.msg = "Unauthorized"]_vars

\* C25: an operation of the administrator called by somebody else never
\* gets to a store operation of the command, changes no balance, no
\* PendingReferral, ConfirmedReferral or Withdrawal and no account other
\* than the caller's own (which the text handler creates when missing and
\* whose awaitingSupportMessage it clears), and a caller that has a profile
\* and no intent, or that pressed the button, is answered 'Unauthorized'
UnauthorizedNoEffect ==
  [][\A s \in Slots :
       (Unauthorized(h[s]) /\ h'[s] # h[s])
       => /\ h'[s].pc \in {"idle", "ensure", "insertUser", "supportClear"}
          /\ SameBalances(h[s].from)
          /\ UNCHANGED <<withdrawalsCol, pendingCol, refsCol>>
          /\ LET u == usersCol[h[s].from] IN
             \/ h[s].pc = "answerCbQuery"
             \/ h[s].pc = "find" /\ u # Null /\ Intents(u) = {}
             => /\ h'[s] = Idle
                /\ lastReply'.msg = "Unauthorized"
                /\ usersCol' = usersCol]_vars

\* /pay was called by a user who has requested a withdrawal, and was
\* answered 'Unauthorized'
UnauthorizedNoEffectWitness ==
  /\ lastReply.kind = "pay"
  /\ lastReply.msg = "Unauthorized"
  /\ lastReply.from \notin ADMIN_IDS
  /\ \E w \in 1..Len(withdrawalsCol) :
       /\ withdrawalsCol[w].userId = lastReply.from
       /\ withdrawalsCol[w].status = "pending"

(***************************************************************************)
(* The administrator's credit among the user's own flows: the user's       *)
(* handlers and the confirmation pass run one at a time, and credits       *)
(* overlap with them at any point                                          *)
(***************************************************************************)
\* User 1 holds the minimum (with or without a saved UPI) or is drafting a
\* withdrawal of it, and has referred user 2 long enough ago for a pass to
\* confirm the referral.
InitCredit ==
  \E d1 \in {Funded(1, <<>>), Funded(1, TxtUpiA), Drafting(1)} :
    /\ usersCol = [u \in UserIds |-> IF u = 1 THEN d1 ELSE NewUser(u)]
    /\ withdrawalsCol = <<>>
    /\ pendingCol = <<PendingReferral(1, 2, 0)>>
    /\ hist = [NoHist EXCEPT
                 !.credits = <<0>>, !.selects = <<0>>,
                 !.locks = [u \in UserIds |->
                              IF u = 1 /\ d1 = Drafting(1) THEN 1 ELSE 0],
                 !.opening = [u \in UserIds |->
                                IF u = 1 THEN d1.balance + d1.balanceLocked
                                ELSE 0]]
    /\ refsCol = <<>>
    /\ now = CONFIRM_DELAY_HOURS
    /\ h = [s \in Slots |-> Idle]
    /\ events = 0
    /\ requiredChannelsCol = <<>>
    /\ lastReply = NoReply

\* no handler other than a credit is under way
OthersQuiet ==
  \A s \in Slots : IF h[s] = Idle THEN TRUE ELSE h[s].kind = "admin_credit"

NextCredit ==
  \E s \in Slots :
    \/ OthersQuiet /\ BeginWithdraw(s)
    \/ OthersQuiet /\ BeginText(s)
    \/ OthersQuiet /\ BeginSweep(s)
    \/ BeginAdminCredit(s)
    \/ EnsureFind(s)
    \/ WithdrawLock(s)
    \/ TextFind(s)
    \/ WdCancel(s)
    \/ WdInsert(s)
    \/ WdClear(s)
    \/ WdDraft(s)
    \/ AcFind(s)
    \/ AcInc(s)
    \/ PassStep(s)

SpecCredit == InitCredit /\ [][NextCredit]_vars

\* the rewards credited to u for the first n PendingReferrals
RECURSIVE Rewarded(_, _)
Rewarded(u, n) ==
  IF n = 0 THEN 0
  ELSE Rewarded(u, n - 1)
       + (IF pendingCol[n].referrerId = u
          THEN REFERRAL_REWARD * hist.credits[n] ELSE 0)

\* C24: whatever the point at which credits are applied among the steps of
\* the user's withdrawal start, draft cancel, draft confirm and of a
\* confirmation pass, balance + balanceLocked of an account is what it is
\* without the credits plus the amounts credited, and the write of a credit
\* changes the balance of its target alone: no flag, no draft, no other
\* account and no Withdrawal
CreditCommutes ==
  /\ [](\A u \in UserIds :
          usersCol[u].balance + usersCol[u].balanceLocked
            = hist.opening[u] + Rewarded(u, Len(pendingCol))
              + hist.adminCredits[u])
  /\ [][\A s \in Slots :
          (h[s].pc = "acInc" /\ h'[s] # h[s])
          => /\ usersCol' =
                  [usersCol EXCEPT ![h[s].targetId].balance = @ + h[s].amount]
             /\ UNCHANGED <<withdrawalsCol, pendingCol, refsCol>>]_vars

\* a credit was applied between the read and the write of a withdrawal
\* start, which then locked the balance it had read
CreditCommutesWitness ==
  /\ lastReply.kind = "withdraw"
  /\ lastReply.msg = "send_upi"
  /\ hist.adminCredits[lastReply.from] = MIN_WITHDRAWAL
  /\ usersCol[lastReply.from].balanceLocked = MIN_WITHDRAWAL
  /\ usersCol[lastReply.from].balance = MIN_WITHDRAWAL

(***************************************************************************)
(* A confirmation pass whose store operations can fail                     *)
(***************************************************************************)
\* Users 1 and 2 have referred each other long enough ago for a pass to take
\* both referrals up.
InitFault ==
  /\ usersCol = [u \in UserIds |-> NewUser(u)]
  /\ pendingCol = <<PendingReferral(1, 2, 0), PendingReferral(2, 1, 0)>>
  /\ hist = [NoHist EXCEPT !.credits = <<0, 0>>, !.selects = <<0, 0>>]
  /\ refsCol = <<>>
  /\ withdrawalsCol = <<>>
  /\ now = CONFIRM_DELAY_HOURS
  /\ h = [s \in Slots |-> Idle]
  /\ events = 0
  /\ requiredChannelsCol = <<>>
  /\ lastReply = NoReply

\* try { ... } catch (e) { logger.error(...) }: the store operation the pass
\* awaits for its record throws and has no effect; the loop goes on with the
\* next record (a failure counts among the events)
PassFail(s) ==
  /\ events < MaxEvents
  /\ h[s].pc \in RecordPcs
  /\ h[s].kind \in PassKinds
  /\ events' = events + 1
  /\ TakeUp(s, h[s], h[s].i + 1)
  /\ UNCHANGED <<usersCol, pendingCol, refsCol, withdrawalsCol, now, requiredChannelsCol, hist>>

NextFault ==
  \E s \in Slots :
    \/ Quiet /\ BeginSweep(s)
    \/ Quiet /\ BeginAdminConfirmTap(s)
    \/ AdminConfirmTap(s)
    \/ PassStep(s)
    \/ PassFail(s)

SpecFault == InitFault /\ [][NextFault]_vars

\* C26: when a store operation of a pass fails on a record, the record has
\* status pending, then and when the pass ends (a pass does not come back to
\* a record); and when the pass leaves a record without a failure, the
\* record has status confirmed or invalid
FailedStaysPending ==
  [][\A s \in Slots :
       (h[s].pc \in RecordPcs /\ h'[s] # h[s])
       => LET id == h[s].pendings[h[s].i] IN
          /\ PassFail(s) => pendingCol'[id].status = "pending"
          /\ (~PassFail(s) /\ (h'[s] = Idle \/ h'[s].i # h[s].i))
             => pendingCol'[id].status \in {"confirmed", "invalid"}]_vars

\* the ConfirmedReferral records of the referral p
RefsOf(p) ==
  {r \in 1..Len(refsCol) :
     /\ refsCol[r].referrerId = p.referrerId
     /\ refsCol[r].referredId = p.referredId}

\* C27: when no pass is at a store operation of a record, a PendingReferral
\* with status confirmed has exactly one ConfirmedReferral record and one
\* that is pending or invalid has none; and a step only appends to the
\* ConfirmedReferral records
RefsMatch ==
  /\ []((\A s \in Slots : h[s].pc \notin RecordPcs)
        => \A p \in 1..Len(pendingCol) :
             Cardinality(RefsOf(pendingCol[p]))
               = IF pendingCol[p].status = "confirmed" THEN 1 ELSE 0)
  /\ [][/\ Len(refsCol') >= Len(refsCol)
        /\ SubSeq(refsCol', 1, Len(refsCol)) = refsCol]_vars

\* C28: a PendingReferral is inserted only by a start whose
\* ensureUserProfile created the account of the referred identity
NewIdentityOnly ==
  [][\A s \in Slots :
       (/\ h[s].pc = "insertPending"
        /\ h'[s] # h[s]
        /\ Len(pendingCol') > Len(pendingCol))
       => h[s].created]_vars

\* C29: every Withdrawal has an amount greater than 0, and no step changes
\* the amount of a Withdrawal or removes one
AmountFixed ==
  /\ [](\A w \in 1..Len(withdrawalsCol) : withdrawalsCol[w].amount > 0)
  /\ [][/\ Len(withdrawalsCol') >= Len(withdrawalsCol)
        /\ \A w \in 1..Len(withdrawalsCol) :
             withdrawalsCol'[w].amount = withdrawalsCol[w].amount]_vars

\* the step in which startWithdrawFlow writes its update for an account that
\* has at least the minimum withdrawal as balance and holds no lock
StartsWithdrawal(s) ==
  /\ h[s].pc = "lock"
  /\ h'[s] = Idle
  /\ usersCol[h[s].from].balance >= MIN_WITHDRAWAL
  /\ usersCol[h[s].from].balanceLocked = 0

\* C30 as the specification words it: starting a withdrawal on an account
\* with balance B >= MIN_WITHDRAWAL and no lock leaves balanceLocked = B and
\* balance = 0 and the account drafting a withdrawal, not confirmable and
\* with no draft target
StartLocksNoDraft ==
  [][\A s \in Slots :
       StartsWithdrawal(s) =>
         LET before == usersCol[h[s].from]
             after == usersCol'[h[s].from]
         IN /\ after.balanceLocked = before.balance
            /\ after.balance = 0
            /\ after.awaitingWithdrawUPI
            /\ ~after.awaitingWithdrawUPIConfirm
            /\ after.draftWithdrawUPI = <<>>]_vars

\* C30: with the updates handled one at a time, starting a withdrawal on an
\* account with balance B >= MIN_WITHDRAWAL and no lock leaves
\* balanceLocked = B and balance = 0 and the account drafting a withdrawal;
\* the draft target is the account's saved UPI and the draft is confirmable
\* exactly if the account has a saved UPI; nothing else of the account and
\* no Withdrawal changes
StartLocksBalance ==
  [][\A s \in Slots :
       StartsWithdrawal(s) =>
         LET before == usersCol[h[s].from]
             after == usersCol'[h[s].from]
         IN /\ after.balanceLocked = before.balance
            /\ after.balance = 0
            /\ after.awaitingWithdrawUPI
            /\ after.awaitingWithdrawUPIConfirm = (before.primaryUPI # <<>>)
            /\ after.draftWithdrawUPI = before.primaryUPI
            /\ after.primaryUPI = before.primaryUPI
            /\ after.awaitingUpiSetup = before.awaitingUpiSetup
            /\ withdrawalsCol' = withdrawalsCol]_vars

\* a withdrawal was started on an account that had the minimum withdrawal and
\* no saved UPI: the whole balance is locked and the draft is empty
StartLocksBalanceWitness ==
  /\ Quiet
  /\ lastReply = [kind |-> "withdraw", from |-> 1, msg |-> "send_upi"]
  /\ hist.locks[1] = 1
  /\ hist.opening[1] = MIN_WITHDRAWAL
  /\ usersCol[1].balanceLocked = MIN_WITHDRAWAL
  /\ usersCol[1].balance = 0
  /\ usersCol[1].awaitingWithdrawUPI
  /\ ~usersCol[1].awaitingWithdrawUPIConfirm
  /\ usersCol[1].draftWithdrawUPI = <<>>
  /\ withdrawalsCol = <<>>

(***************************************************************************)
(* The requirement guard: bot.use, enforceChannelRequirements and          *)
(* collectMissingChannels in front of every handler                        *)
(***************************************************************************)
ALLOWED_MEMBER_STATUSES == {"creator", "administrator", "member"}

RequiredChannel(chatId) == [chatId |-> chatId]

\* what ctx.telegram.getChatMember can do: throw, or answer with a status
ChatMemberResults ==
  {[threw |-> TRUE, status |-> "none", is_member |-> FALSE],
   [threw |-> FALSE, status |-> "member", is_member |-> TRUE],
   [threw |-> FALSE, status |-> "left", is_member |-> FALSE],
   [threw |-> FALSE, status |-> "restricted", is_member |-> TRUE],
   [threw |-> FALSE, status |-> "restricted", is_member |-> FALSE]}

\* the body of the loop of collectMissingChannels: is the channel pushed to
\* missing for this result of getChatMember
isMissing(member) ==
  IF member.threw THEN TRUE
  ELSE IF member.status \in ALLOWED_MEMBER_STATUSES THEN FALSE
  ELSE IF member.status = "restricted" /\ member.is_member THEN FALSE
  ELSE TRUE

\* the handlers behind the guard: /withdraw and /setupi sent in a chat
GuardedKinds == {"withdraw", "setupi"}

Guarded(kind, f) == [kind |-> kind, pc |-> "ensure", from |-> f, u |-> Null]

\* bot.use: an update arrives; enforceChannelRequirements returns true for an
\* administrator without a store operation, and next() runs the handler
BeginGuarded(s) ==
  \E f \in UserIds, kind \in GuardedKinds :
    /\ Accepting(s)
    /\ Receive(s, IF isAdmin(f) THEN Guarded(kind, f)
                  ELSE [kind |-> "guard", pc |-> "fetch", from |-> f,
                        next |-> Guarded(kind, f), channels |-> <<>>, i |-> 0,
                        missing |-> <<>>, failed |-> {}])

\* next(): the update reaches its handler
PassGuard(s) == Goto(s, h[s].next)

\* fetchRequiredChannels: requiredChannelsCol.find().sort({createdAt: 1}); with
\* no channel required there is nothing missing
GuardFetch(s) ==
  /\ Running(s, {"guard"}, "fetch")
  /\ IF Len(requiredChannelsCol) = 0
     THEN PassGuard(s)
     ELSE Goto(s, [h[s] EXCEPT !.pc = "member", !.i = 1,
                               !.channels = requiredChannelsCol])
  /\ UNCHANGED <<usersCol, pendingCol, refsCol, withdrawalsCol,
                 requiredChannelsCol, now, events, hist>>

\* the find throws: bot.use catches what enforceChannelRequirements throws
\* and falls through to next()
GuardFetchFail(s) ==
  /\ Running(s, {"guard"}, "fetch")
  /\ PassGuard(s)
  /\ UNCHANGED <<usersCol, pendingCol, refsCol, withdrawalsCol,
                 requiredChannelsCol, now, events, hist>>

\* collectMissingChannels: one getChatMember of the loop; after the last one
\* enforceChannelRequirements returns true if nothing is missing
GuardMember(s) ==
  /\ Running(s, {"guard"}, "member")
  /\ \E member \in ChatMemberResults :
       LET hd == h[s]
           missing == IF isMissing(member) THEN Append(hd.missing, hd.i)
                      ELSE hd.missing
           failed == IF member.threw THEN hd.failed \cup {hd.i} ELSE hd.failed
       IN IF hd.i < Len(hd.channels)
          THEN Goto(s, [hd EXCEPT !.i = hd.i + 1, !.missing = missing,
                                  !.failed = failed])
          ELSE IF Len(missing) = 0
          THEN PassGuard(s)
          ELSE Goto(s, [hd EXCEPT !.pc = "locked", !.missing = missing,
                                  !.failed = failed])
  /\ UNCHANGED <<usersCol, pendingCol, refsCol, withdrawalsCol,
                 requiredChannelsCol, now, events, hist>>

\* enforceChannelRequirements: ctx.reply("Access locked ..."), return false;
\* bot.use returns without next()
GuardLocked(s) ==
  /\ Running(s, {"guard"}, "locked")
  /\ Finish(s, "access_locked")
  /\ UNCHANGED <<usersCol, pendingCol, refsCol, withdrawalsCol,
                 requiredChannelsCol, now, events, hist>>

\* the reply throws: bot.use catches it and falls through to next()
GuardLockedFail(s) ==
  /\ Running(s, {"guard"}, "locked")
  /\ PassGuard(s)
  /\ UNCHANGED <<usersCol, pendingCol, refsCol, withdrawalsCol,
                 requiredChannelsCol, now, events, hist>>

\* User 1 is not an administrator and was credited the minimum, or is not
\* known yet; the administrators required no channel, one, or two.
InitGuard ==
  /\ usersCol \in {[u \in UserIds |-> IF u = 1 THEN Null ELSE NewUser(u)],
                   [u \in UserIds |->
                      IF u = 1 THEN Funded(u, <<>>) ELSE NewUser(u)]}
  /\ requiredChannelsCol \in
       {<<>>, <<RequiredChannel(10)>>,
        <<RequiredChannel(10), RequiredChannel(11)>>}
  /\ pendingCol = <<>>
  /\ refsCol = <<>>
  /\ withdrawalsCol = <<>>
  /\ hist = [NoHist EXCEPT
               !.opening = [u \in UserIds |->
                              IF usersCol[u] = Null THEN 0
                              ELSE usersCol[u].balance]]
  /\ now = 0
  /\ h = [s \in Slots |-> Idle]
  /\ events = 0
  /\ lastReply = NoReply

NextGuard ==
  \E s \in Slots :
    \/ BeginGuarded(s)
    \/ GuardFetch(s)
    \/ GuardFetchFail(s)
    \/ GuardMember(s)
    \/ GuardLocked(s)
    \/ GuardLockedFail(s)
    \/ EnsureFind(s)
    \/ InsertUser(s)
    \/ WithdrawLock(s)
    \/ SetUpi(s)

SpecGuard == InitGuard /\ [][NextGuard]_vars

\* C31: a guard that saw a membership check fail with an error lets the
\* update of the user, who is no administrator, through to its handler: it
\* never ends without next()
FailsOpen ==
  [][\A s \in Slots :
       (/\ h[s] # Idle
        /\ h[s].kind = "guard"
        /\ h[s].failed # {}
        /\ h'[s] # h[s]
        /\ (IF h'[s] = Idle THEN TRUE ELSE h'[s].kind # "guard"))
       => h'[s] = h[s].next]_vars

\* C32: a withdrawal start that reads an account with a balance below
\* MIN_WITHDRAWAL ends there with a rejection and writes nothing: no account
\* (balance, balanceLocked, intent flags and drafts stay) and no Withdrawal
BelowMinimumRejected ==
  [][\A s \in Slots :
       (/\ h[s].pc = "ensure"
        /\ h[s].kind = "withdraw"
        /\ h'[s] # h[s]
        /\ usersCol[h[s].from] # Null
        /\ usersCol[h[s].from].balance < MIN_WITHDRAWAL)
       => /\ h'[s] = Idle
          /\ lastReply'.kind = "withdraw"
          /\ lastReply'.from = h[s].from
          /\ lastReply'.msg \in {"below_minimum", "already_pending"}
          /\ usersCol' = usersCol
          /\ withdrawalsCol' = withdrawalsCol]_vars

\* the case happens: a start was rejected for an account that holds no lock
\* and has less than the minimum
BelowMinimumRejectedWitness ==
  \E u \in UserIds :
    /\ lastReply = [kind |-> "withdraw", from |-> u, msg |-> "below_minimum"]
    /\ usersCol[u].balance < MIN_WITHDRAWAL
    /\ usersCol[u].balanceLocked = 0
    /\ ~usersCol[u].awaitingWithdrawUPI
    /\ withdrawalsCol = <<>>

\* C33: whenever no handler is under way, an account with balanceLocked > 0 is
\* drafting a withdrawal or has a Withdrawal with status pending
LockNeverStranded ==
  Quiet =>
    \A u \in UserIds :
      (usersCol[u] # Null /\ usersCol[u].balanceLocked > 0)
      => \/ usersCol[u].awaitingWithdrawUPI
         \/ PendingOf(u) # {}

====
